---- MODULE Spec2Model ----
(***************************************************************************)
(* Per-conversation run scheduler and streaming-reply reconciler of the   *)
(* embedded agent runner.                                                  *)
(*                                                                         *)
(*   src/src/agents/pi-embedded-runner.ts     run registry, waiters,       *)
(*                                            nested lane submission, the  *)
(*                                            attempt loop of a turn       *)
(*   src/src/agents/pi-embedded-subscribe.ts  streaming reply reconciler   *)
(*   src/src/auto-reply/reply.ts              reply queue policy           *)
(*   src/src/agents/pi-embedded-runner/google.ts  session history filter   *)
(*   src/src/cli/daemon-cli.ts                daemon restart               *)
(*   src/unnamed/part_004                     external CLI credential sync *)
(*   src/unnamed/part_000                     update command               *)
(*                                                                         *)
(* The specifications of the module:                                       *)
(*   SpecRun    turns submitted through the lanes, their attempts          *)
(*   SpecWait   waiters on the registry while turns come and go            *)
(*   SpecShared turns that share a session id under different keys         *)
(*   SpecLanes  turns submitted under any lane name, their bodies ending   *)
(*   SpecSteer  steering into turns whose sessions stream and compact      *)
(*   SpecSub    one subscription consuming an assistant event stream       *)
(*   SpecStream one subscription consuming the messages of a turn with no  *)
(*              tool call and no repeated text_end                         *)
(*   SpecLate   one subscription whose provider sends a text_end late      *)
(*   SpecCompact one subscription whose session compacts and retries       *)
(*   SpecGate   callers waiting at the compaction gate of a subscription   *)
(*   SpecPolicy inbound messages handled by the reply queue policy         *)
(*   SpecRotate the turns of an agent rotating among its auth profiles     *)
(*   SpecRotateFair  the turns of one lane, every attempt of which ends   *)
(*   SpecSync   an auth profile store synced with the external CLIs        *)
(*   SpecHistory the reasoning-only filter of sanitizeSessionHistory       *)
(*   SpecUpdate one call of updateCommand                                  *)
(***************************************************************************)
EXTENDS Integers, Sequences, FiniteSets, TLC

(***************************************************************************)
(* Bounds of the model.                                                    *)
(***************************************************************************)
MaxTurns == 2          \* turns submitted through runEmbeddedPiAgent (SpecRun)
WaitTurns == 1         \* turns of SpecWait
SteerTurns == 1        \* turns of SpecSteer
MaxWaiters == 2        \* calls of waitForEmbeddedPiRunEnd
MaxQueueCalls == 1      \* calls of queueEmbeddedPiMessage
NumProfiles == 2       \* candidate auth profiles of a turn
MaxPendingRetry == 1   \* cap of the pending compaction-retry counter
MaxMessages == 1       \* assistant messages of the event stream (SpecSub)
MaxReplays == 1        \* repeated text_end events of the stream
MaxToolCalls == 1      \* messaging-tool calls of the stream
MaxStreamed == 2       \* assistant messages of the event stream (SpecStream)
MaxInbound == 2        \* inbound messages handled by the policy (SpecPolicy)
MaxTime == 2           \* last instant of the clock of the credential sync
MaxSyncs == 2          \* calls of syncExternalCliCredentials
MaxHistory == 2        \* messages of a session history
MaxGates == 2          \* calls of waitForCompactionRetry

Turns == 1..MaxTurns
Waiters == 1..MaxWaiters

\* Session keys of the callers; reply.ts derives the session id from the
\* session entry stored under the key, so distinct keys carry distinct ids.
SessionKeys == {"a", "b"}
SessionIds == {"id-a", "id-b"}
\* params.lane as given by callers ("" stands for an absent lane).
LaneParams == {"", "cron"}
ThinkLevels == {"off", "low"}
SteerTexts == {"hello"}

NoTurn == 0
NoHandle == <<0, 0, "">>

VARIABLES
  ACTIVE_EMBEDDED_RUNS,   \* sessionId -> registered queue handle
  EMBEDDED_RUN_WAITERS,   \* sessionId -> set of pending waiters
  waiter,                 \* per waiter: promise state, timer armed, resolve calls
  laneQueue,              \* command queue: lane -> queued tasks
  laneActive,             \* command queue: lane -> running task
  turn,                   \* per turn: position in runEmbeddedPiAgent and its locals
  sess,                   \* per turn: the attempt's agent session and subscription flags
  steered,                \* per turn: texts passed to session.steer
  queueLog,               \* number of queueEmbeddedPiMessage calls and the last one
  submitOrder,            \* turns in the order runEmbeddedPiAgent was called
  finishOrder             \* turns in the order their promise settled

runVars == <<ACTIVE_EMBEDDED_RUNS, EMBEDDED_RUN_WAITERS, waiter, laneQueue,
             laneActive, turn, sess, steered, queueLog, submitOrder, finishOrder>>

VARIABLES
  params,     \* subscribeEmbeddedPiSession: blockReplyBreak, enforceFinalTag, onBlockReply
  sub,        \* the closure variables of the subscription
  stream,     \* the provider: the message being streamed and how far it got
  observed,   \* what the subscription handed to its callbacks and its log
  lastEvt     \* the event handled last

subVars == <<params, sub, stream, observed, lastEvt>>

VARIABLES
  inbound,    \* getReplyFromConfig: the inbound message being handled
  followups,  \* session key -> messages waiting as FollowupRun
  turnMsg     \* per turn: the inbound messages its prompt carries

polVars == <<inbound, followups, turnMsg>>

VARIABLES
  authStore,  \* the auth profile store: profile -> in cooldown
  rot         \* runEmbeddedPiAgent: the turn's rotation locals and its result

rotVars == <<authStore, rot>>

VARIABLES
  profiles,   \* store.profiles of an auth profile store: profile id -> credential
  sync,       \* the calls of syncExternalCliCredentials and the last one
  now,        \* Date.now()
  hist,       \* sanitizeSessionHistory: the messages and the filter's result
  upd         \* updateCommand: its options, its position and what it did

auxVars == <<profiles, sync, now, hist, upd>>

vars == <<runVars, subVars, polVars, rotVars, auxVars>>

(***************************************************************************)
(* Lanes.                                                                  *)
(***************************************************************************)
resolveSessionLane(key) == "session:" \o key

resolveGlobalLane(lane) == IF lane = "" THEN "main" ELSE lane

SessionIdOfKey(key) == "id-" \o key

Lanes == {resolveSessionLane(k) : k \in SessionKeys}
           \cup {resolveGlobalLane(l) : l \in LaneParams}

\* params.sessionId of the turn.
SessionIdOf(t) == turn[t].sessionId

\* The command queue: one FIFO per lane, one task running at a time.
LaneEnqueue(q, lane, task) == [q EXCEPT ![lane] = Append(@, task)]

(***************************************************************************)
(* Run registry.                                                           *)
(***************************************************************************)
\* The queue handle of an attempt closes over the session created for the
\* attempt's profile and thinking level.
HandleOf(t) == <<t, turn[t].profileIndex, turn[t].thinkLevel>>

isEmbeddedPiRunActive(sessionId) == ACTIVE_EMBEDDED_RUNS[sessionId] # NoHandle

isCompacting(s) == s.compactionInFlight \/ s.pendingCompactionRetry > 0

isEmbeddedPiRunStreaming(sessionId) ==
  LET handle == ACTIVE_EMBEDDED_RUNS[sessionId]
  IN  IF handle = NoHandle THEN FALSE ELSE sess[handle[1]].streaming

FreshSession == [streaming |-> FALSE, compactionInFlight |-> FALSE,
                 pendingCompactionRetry |-> 0]

\* notOwn records that an attempt of the turn ended while the registry
\* entry of its session id was not the attempt's handle.
FreshTurn == [pc |-> "idle", key |-> "a", sessionId |-> "id-a", lane |-> "",
              notOwn |-> FALSE,
              profileIndex |-> 0, thinkLevel |-> "off", attemptedThinking |-> {},
              aborted |-> FALSE, timedOut |-> FALSE, bodyRuns |-> 0,
              promise |-> "pending"]

\* waited records that the call found a run and added a waiter to the set.
FreshWaiter == [sid |-> "", state |-> "unused", timer |-> FALSE, resolves |-> 0,
                waited |-> FALSE]

NoCall == [n |-> 0, sid |-> "", text |-> "", result |-> FALSE]

InitRun ==
  /\ ACTIVE_EMBEDDED_RUNS = [s \in SessionIds |-> NoHandle]
  /\ EMBEDDED_RUN_WAITERS = [s \in SessionIds |-> {}]
  /\ waiter = [w \in Waiters |-> FreshWaiter]
  /\ laneQueue = [l \in Lanes |-> <<>>]
  /\ laneActive = [l \in Lanes |-> NoTurn]
  /\ turn = [t \in Turns |-> FreshTurn]
  /\ sess = [t \in Turns |-> FreshSession]
  /\ steered = [t \in Turns |-> <<>>]
  /\ queueLog = NoCall
  /\ submitOrder = <<>>
  /\ finishOrder = <<>>

(***************************************************************************)
(* The command queue (process/command-queue): one FIFO per lane, one task  *)
(* running per lane; a lane is drained when a task is enqueued and when    *)
(* its running task settles.                                               *)
(***************************************************************************)
IsSessionLane(lane) == lane \in {resolveSessionLane(k) : k \in SessionKeys}

Startable(L) == {l \in Lanes : L.a[l] = NoTurn /\ L.q[l] # <<>>}

\* Starting the head task of lane l. A session-lane task of a turn is
\* () => enqueueGlobal(body): it enqueues the body on the turn's global lane
\* and keeps the session lane until the body settles. A global-lane task is
\* the body itself.
StartHead(L, l) ==
  LET t == Head(L.q[l])
      gl == resolveGlobalLane(L.turn[t].lane)
  IN  IF L.turn[t].pc = "sessionQueued"
      THEN [q |-> [L.q EXCEPT ![l] = Tail(@), ![gl] = Append(@, t)],
            a |-> [L.a EXCEPT ![l] = t],
            turn |-> [L.turn EXCEPT ![t].pc = "globalQueued"]]
      ELSE [q |-> [L.q EXCEPT ![l] = Tail(@)],
            a |-> [L.a EXCEPT ![l] = t],
            turn |-> [L.turn EXCEPT ![t].pc = "setup", ![t].bodyRuns = @ + 1]]

RECURSIVE drainLanes(_)
drainLanes(L) ==
  IF Startable(L) = {} THEN L
  ELSE drainLanes(StartHead(L, CHOOSE l \in Startable(L) : TRUE))

\* The body's promise settles: the global lane and then the session lane
\* are released and drained.
ReleaseLanes(a, t) == [l \in Lanes |-> IF a[l] = t THEN NoTurn ELSE a[l]]

\* A queue that drains a lane only after a task that resolved.
SettleStallsOnThrow(tn, t) ==
  IF tn[t].promise = "rejected"
  THEN [q |-> laneQueue, a |-> laneActive, turn |-> tn]
  ELSE drainLanes([q |-> laneQueue, a |-> ReleaseLanes(laneActive, t), turn |-> tn])

SettleTask(tn, t) ==
  drainLanes([q |-> laneQueue, a |-> ReleaseLanes(laneActive, t), turn |-> tn])

(***************************************************************************)
(* runEmbeddedPiAgent: nested submission.                                  *)
(***************************************************************************)
SubmitGlobalOnly(t, key, lane) ==
  drainLanes([q |-> LaneEnqueue(laneQueue, resolveGlobalLane(lane), t),
              a |-> laneActive,
              turn |-> [turn EXCEPT ![t].pc = "globalQueued", ![t].key = key,
                                    ![t].sessionId = SessionIdOfKey(key),
                                    ![t].lane = lane]])

\* enqueueCommandInLane(sessionLane, () => enqueueGlobal(body))
SubmitTask(t, key, lane) ==
  drainLanes([q |-> LaneEnqueue(laneQueue, resolveSessionLane(key), t),
              a |-> laneActive,
              turn |-> [turn EXCEPT ![t].pc = "sessionQueued", ![t].key = key,
                                    ![t].sessionId = SessionIdOfKey(key),
                                    ![t].lane = lane]])

Submit(t, key, lane) ==
  /\ turn[t].pc = "idle"
  /\ t = Len(submitOrder) + 1
  /\ LET L == SubmitTask(t, key, lane)
     IN  /\ laneQueue' = L.q
         /\ laneActive' = L.a
         /\ turn' = L.turn
  /\ submitOrder' = Append(submitOrder, t)
  /\ UNCHANGED <<ACTIVE_EMBEDDED_RUNS, EMBEDDED_RUN_WAITERS, waiter,
                 sess, steered, queueLog, finishOrder>>
  /\ UNCHANGED <<subVars, polVars, rotVars, auxVars>>

\* A caller that passes a session id of its own choice with the session key:
\* params.sessionId and params.sessionKey are separate parameters.
SubmitShared(t, key, sessionId, lane) ==
  /\ turn[t].pc = "idle"
  /\ t = Len(submitOrder) + 1
  /\ LET L == SubmitTask(t, key, lane)
     IN  /\ laneQueue' = L.q
         /\ laneActive' = L.a
         /\ turn' = [L.turn EXCEPT ![t].sessionId = sessionId]
  /\ submitOrder' = Append(submitOrder, t)
  /\ UNCHANGED <<ACTIVE_EMBEDDED_RUNS, EMBEDDED_RUN_WAITERS, waiter,
                 sess, steered, queueLog, finishOrder>>
  /\ UNCHANGED <<subVars, polVars, rotVars, auxVars>>

(***************************************************************************)
(* Waiters: waitForEmbeddedPiRunEnd and notifyEmbeddedRunEnded.            *)
(***************************************************************************)
\* A promise keeps the value of its first resolve call.
ResolveWaiter(wr, value) ==
  [wr EXCEPT !.state = IF @ = "pending" THEN value ELSE @,
             !.resolves = @ + 1,
             !.timer = FALSE]

WaitNeverImmediate(w, sessionId) ==
  /\ EMBEDDED_RUN_WAITERS' = [EMBEDDED_RUN_WAITERS EXCEPT ![sessionId] = @ \cup {w}]
  /\ waiter' = [waiter EXCEPT ![w] = [sid |-> sessionId, state |-> "pending",
                                      timer |-> TRUE, resolves |-> 0,
                                      waited |-> TRUE]]

waitForEmbeddedPiRunEnd(w, sessionId) ==
  IF ~isEmbeddedPiRunActive(sessionId)
  THEN /\ waiter' = [waiter EXCEPT ![w] = [sid |-> sessionId, state |-> "true",
                                            timer |-> FALSE, resolves |-> 1,
                                            waited |-> FALSE]]
       /\ UNCHANGED EMBEDDED_RUN_WAITERS
  ELSE /\ EMBEDDED_RUN_WAITERS' = [EMBEDDED_RUN_WAITERS EXCEPT ![sessionId] = @ \cup {w}]
       /\ waiter' = [waiter EXCEPT ![w] = [sid |-> sessionId, state |-> "pending",
                                            timer |-> TRUE, resolves |-> 0,
                                            waited |-> TRUE]]

WaitForEnd(w, sessionId) ==
  /\ waiter[w].state = "unused"
  /\ \A v \in Waiters : v < w => waiter[v].state # "unused"
  /\ waitForEmbeddedPiRunEnd(w, sessionId)
  /\ UNCHANGED <<ACTIVE_EMBEDDED_RUNS, laneQueue, laneActive, turn, sess, steered,
                 queueLog, submitOrder, finishOrder>>
  /\ UNCHANGED <<subVars, polVars, rotVars, auxVars>>

\* The waiter's setTimeout callback.
WaiterTimeout(w) ==
  /\ waiter[w].timer
  /\ EMBEDDED_RUN_WAITERS' = [s \in SessionIds |-> EMBEDDED_RUN_WAITERS[s] \ {w}]
  /\ waiter' = [waiter EXCEPT ![w] = ResolveWaiter(@, "false")]
  /\ UNCHANGED <<ACTIVE_EMBEDDED_RUNS, laneQueue, laneActive, turn, sess, steered,
                 queueLog, submitOrder, finishOrder>>
  /\ UNCHANGED <<subVars, polVars, rotVars, auxVars>>

NotifyKeepsTimers(sessionId) ==
  /\ EMBEDDED_RUN_WAITERS' = [EMBEDDED_RUN_WAITERS EXCEPT ![sessionId] = {}]
  /\ waiter' = [w \in Waiters |->
                  IF w \in EMBEDDED_RUN_WAITERS[sessionId]
                  THEN [ResolveWaiter(waiter[w], "true") EXCEPT !.timer = TRUE]
                  ELSE waiter[w]]

notifyEmbeddedRunEnded(sessionId) ==
  /\ EMBEDDED_RUN_WAITERS' = [EMBEDDED_RUN_WAITERS EXCEPT ![sessionId] = {}]
  /\ waiter' = [w \in Waiters |->
                  IF w \in EMBEDDED_RUN_WAITERS[sessionId]
                  THEN ResolveWaiter(waiter[w], "true")
                  ELSE waiter[w]]

(***************************************************************************)
(* Steering and aborting through the registry.                            *)
(***************************************************************************)
QueueCall(sessionId, text, result) ==
  [n |-> queueLog.n + 1, sid |-> sessionId, text |-> text, result |-> result]

QueueIgnoresCompaction(sessionId, text) ==
  LET handle == ACTIVE_EMBEDDED_RUNS[sessionId]
  IN  IF handle = NoHandle \/ ~sess[handle[1]].streaming
      THEN /\ queueLog' = QueueCall(sessionId, text, FALSE)
           /\ UNCHANGED steered
      ELSE /\ queueLog' = QueueCall(sessionId, text, TRUE)
           /\ steered' = [steered EXCEPT ![handle[1]] = Append(@, text)]

queueEmbeddedPiMessage(sessionId, text) ==
  LET handle == ACTIVE_EMBEDDED_RUNS[sessionId]
  IN  IF \/ handle = NoHandle
         \/ ~sess[handle[1]].streaming
         \/ isCompacting(sess[handle[1]])
      THEN /\ queueLog' = QueueCall(sessionId, text, FALSE)
           /\ UNCHANGED steered
      ELSE /\ queueLog' = QueueCall(sessionId, text, TRUE)
           /\ steered' = [steered EXCEPT ![handle[1]] = Append(@, text)]

QueueMessage(sessionId, text) ==
  /\ queueLog.n < MaxQueueCalls
  /\ queueEmbeddedPiMessage(sessionId, text)
  /\ UNCHANGED <<ACTIVE_EMBEDDED_RUNS, EMBEDDED_RUN_WAITERS, waiter, laneQueue,
                 laneActive, turn, sess, submitOrder, finishOrder>>
  /\ UNCHANGED <<subVars, polVars, rotVars, auxVars>>

\* abortEmbeddedPiRun: handle.abort() is abortRun() of the registered attempt.
AbortRun(sessionId) ==
  LET handle == ACTIVE_EMBEDDED_RUNS[sessionId]
  IN  /\ handle # NoHandle
      /\ ~turn[handle[1]].aborted
      /\ turn' = [turn EXCEPT ![handle[1]].aborted = TRUE]
      /\ UNCHANGED <<ACTIVE_EMBEDDED_RUNS, EMBEDDED_RUN_WAITERS, waiter, laneQueue,
                     laneActive, sess, steered, queueLog, submitOrder, finishOrder>>
      /\ UNCHANGED <<subVars, polVars, rotVars, auxVars>>

(***************************************************************************)
(* One attempt of a turn: the body of the while (true) loop.               *)
(***************************************************************************)
Outcomes == {"ok", "promptOverflow", "promptFailover", "promptTimeout",
             "promptThinking", "promptOther", "asstFailover", "asstThinking"}

PromptErrors == {"promptOverflow", "promptFailover", "promptTimeout",
                 "promptThinking", "promptOther"}

\* The turn's promise settles; the locals of the body go out of scope.
Finished(r) ==
  [r EXCEPT !.pc = "done", !.profileIndex = 0, !.thinkLevel = "off",
            !.attemptedThinking = {}, !.aborted = FALSE, !.timedOut = FALSE]

\* The promise runEmbeddedPiAgent returned for the turn is fulfilled with the
\* body's result or rejected with what the body threw.
Settled(r, how) == [r EXCEPT !.promise = how]

\* The body returns its result / throws.
Returned(r) == Settled(Finished(r), "fulfilled")

Thrown(r) == Settled(Finished(r), "rejected")

\* ACTIVE_EMBEDDED_RUNS.set(params.sessionId, queueHandle)
Register(reg, sessionId, handle) == [reg EXCEPT ![sessionId] = handle]

DeregisterNever(reg, sessionId, handle) == reg

\* A finally block that deletes the entry of the session id whatever it is.
DeregisterAnyHandle(reg, sessionId, handle) == [reg EXCEPT ![sessionId] = NoHandle]

\* if (ACTIVE_EMBEDDED_RUNS.get(params.sessionId) === queueHandle) delete
Deregister(reg, sessionId, handle) ==
  IF reg[sessionId] = handle THEN [reg EXCEPT ![sessionId] = NoHandle] ELSE reg

\* Loop head up to ACTIVE_EMBEDDED_RUNS.set: a fresh session, subscription and
\* queue handle are created for the attempt and the handle is registered.
RegisterAttempt(t) ==
  /\ turn[t].pc \in {"setup", "retry"}
  /\ turn' = [turn EXCEPT ![t].pc = "prompting",
                          ![t].attemptedThinking = @ \cup {turn[t].thinkLevel},
                          ![t].aborted = FALSE,
                          ![t].timedOut = FALSE]
  /\ sess' = [sess EXCEPT ![t] = FreshSession]
  /\ ACTIVE_EMBEDDED_RUNS' =
       Register(ACTIVE_EMBEDDED_RUNS, SessionIdOf(t), HandleOf(t))
  /\ UNCHANGED <<EMBEDDED_RUN_WAITERS, waiter, laneQueue, laneActive, steered,
                 queueLog, submitOrder, finishOrder>>
  /\ UNCHANGED <<subVars, polVars, rotVars, auxVars>>

\* A throw before the handle is registered (unknown model, unusable pinned
\* profile, no credential, history sanitising, subscribe).
SetupThrows(t) ==
  /\ turn[t].pc \in {"setup", "retry"}
  /\ LET L == SettleTask([turn EXCEPT ![t] = Thrown(@)], t)
     IN  /\ laneQueue' = L.q
         /\ laneActive' = L.a
         /\ turn' = L.turn
  /\ finishOrder' = Append(finishOrder, t)
  /\ UNCHANGED <<ACTIVE_EMBEDDED_RUNS, EMBEDDED_RUN_WAITERS, waiter,
                 sess, steered, queueLog, submitOrder>>
  /\ UNCHANGED <<subVars, polVars, rotVars, auxVars>>

\* session.isStreaming changes while session.prompt is in flight.
SessionStreaming(t) ==
  /\ turn[t].pc = "prompting"
  /\ sess' = [sess EXCEPT ![t].streaming = ~@]
  /\ UNCHANGED <<ACTIVE_EMBEDDED_RUNS, EMBEDDED_RUN_WAITERS, waiter, laneQueue,
                 laneActive, turn, steered, queueLog, submitOrder, finishOrder>>
  /\ UNCHANGED <<subVars, polVars, rotVars, auxVars>>

\* auto_compaction_start
CompactionStart(t) ==
  /\ turn[t].pc = "prompting"
  /\ ~sess[t].compactionInFlight
  /\ sess' = [sess EXCEPT ![t].compactionInFlight = TRUE]
  /\ UNCHANGED <<ACTIVE_EMBEDDED_RUNS, EMBEDDED_RUN_WAITERS, waiter, laneQueue,
                 laneActive, turn, steered, queueLog, submitOrder, finishOrder>>
  /\ UNCHANGED <<subVars, polVars, rotVars, auxVars>>

\* auto_compaction_end
CompactionEnd(t, willRetry) ==
  /\ turn[t].pc = "prompting"
  /\ sess[t].compactionInFlight
  /\ willRetry => sess[t].pendingCompactionRetry < MaxPendingRetry
  /\ sess' = [sess EXCEPT ![t].compactionInFlight = FALSE,
                          ![t].pendingCompactionRetry = IF willRetry THEN @ + 1 ELSE @]
  /\ UNCHANGED <<ACTIVE_EMBEDDED_RUNS, EMBEDDED_RUN_WAITERS, waiter, laneQueue,
                 laneActive, turn, steered, queueLog, submitOrder, finishOrder>>
  /\ UNCHANGED <<subVars, polVars, rotVars, auxVars>>

\* agent_end: resolveCompactionRetry
AgentEnd(t) ==
  /\ turn[t].pc = "prompting"
  /\ sess[t].pendingCompactionRetry > 0
  /\ sess' = [sess EXCEPT ![t].pendingCompactionRetry = @ - 1]
  /\ UNCHANGED <<ACTIVE_EMBEDDED_RUNS, EMBEDDED_RUN_WAITERS, waiter, laneQueue,
                 laneActive, turn, steered, queueLog, submitOrder, finishOrder>>
  /\ UNCHANGED <<subVars, polVars, rotVars, auxVars>>

\* The abortTimer fires: abortRun(true).
Timeout(t) ==
  /\ turn[t].pc = "prompting"
  /\ ~turn[t].timedOut
  /\ turn' = [turn EXCEPT ![t].aborted = TRUE, ![t].timedOut = TRUE]
  /\ UNCHANGED <<ACTIVE_EMBEDDED_RUNS, EMBEDDED_RUN_WAITERS, waiter, laneQueue,
                 laneActive, sess, steered, queueLog, submitOrder, finishOrder>>
  /\ UNCHANGED <<subVars, polVars, rotVars, auxVars>>

(***************************************************************************)
(* After the attempt: retry with another profile or thinking level, return *)
(* or throw.                                                               *)
(***************************************************************************)
\* advanceAuthProfile: the next candidate whose credential resolves, if any;
\* NumProfiles stands for "no candidate left".
AdvanceTargets(r) == (r.profileIndex + 1)..NumProfiles

\* pickFallbackThinkingLevel: a supported level not attempted yet, if any.
FallbackLevels(r) == ThinkLevels \ r.attemptedThinking

RetryWithProfile(r, j) ==
  [r EXCEPT !.pc = "retry", !.profileIndex = j, !.thinkLevel = "off",
            !.attemptedThinking = {}, !.aborted = FALSE, !.timedOut = FALSE]

RetryWithThinking(r, lvl) ==
  [r EXCEPT !.pc = "retry", !.thinkLevel = lvl, !.aborted = FALSE,
            !.timedOut = FALSE]

\* The ways the turn continues after the finally block. outcome is what
\* session.prompt and the last assistant message report:
\*   prompt error, not aborted: context overflow returns an error payload;
\*     a failover error rotates or throws; an unsupported thinking level
\*     falls back or throws; anything else throws;
\*   otherwise: thinking fallback on the assistant's error; rotation on an
\*     assistant failover error or a timeout, FailoverError when exhausted and
\*     a model fallback is configured; else the result is returned.
DecideNext(r, outcome) ==
  LET rotate == {RetryWithProfile(r, j) : j \in AdvanceTargets(r) \ {NumProfiles}}
      exhausted == NumProfiles \in AdvanceTargets(r)
      think == {RetryWithThinking(r, lvl) : lvl \in FallbackLevels(r)}
      shouldRotate == (~r.aborted /\ outcome = "asstFailover") \/ r.timedOut
  IN  IF outcome \in PromptErrors /\ ~r.aborted
      THEN CASE outcome = "promptOverflow" -> {Returned(r)}
             [] outcome = "promptFailover" ->
                  rotate \cup (IF exhausted THEN {Thrown(r)} ELSE {})
             [] outcome = "promptThinking" ->
                  IF think # {} THEN think ELSE {Thrown(r)}
             [] OTHER -> {Thrown(r)}
      ELSE IF outcome = "asstThinking" /\ ~r.aborted /\ think # {}
      THEN think
      ELSE IF shouldRotate
      THEN rotate \cup (IF exhausted THEN {Returned(r), Thrown(r)} ELSE {})
      ELSE {Returned(r)}

\* await session.prompt() settles and waitForCompactionRetry() resolves; the
\* finally block of the attempt unsubscribes, removes the own registration and
\* notifies the waiters; then the loop continues with a retry, or the body
\* returns or throws and its lanes are released.
AttemptEnds(t) ==
  LET sid == SessionIdOf(t)
  IN  /\ turn[t].pc = "prompting"
      /\ ~isCompacting(sess[t])
      /\ sess' = [sess EXCEPT ![t] = FreshSession]
      /\ ACTIVE_EMBEDDED_RUNS' = Deregister(ACTIVE_EMBEDDED_RUNS, sid, HandleOf(t))
      /\ IF ACTIVE_EMBEDDED_RUNS[sid] = HandleOf(t)
         THEN notifyEmbeddedRunEnded(sid)
         ELSE UNCHANGED <<EMBEDDED_RUN_WAITERS, waiter>>
      /\ \E next \in UNION {DecideNext([turn[t] EXCEPT !.notOwn =
                                            @ \/ ACTIVE_EMBEDDED_RUNS[sid] # HandleOf(t)],
                                        outcome) : outcome \in Outcomes} :
             IF next.pc = "done"
             THEN /\ LET L == SettleTask([turn EXCEPT ![t] = next], t)
                     IN  /\ laneQueue' = L.q
                         /\ laneActive' = L.a
                         /\ turn' = L.turn
                  /\ finishOrder' = Append(finishOrder, t)
             ELSE /\ turn' = [turn EXCEPT ![t] = next]
                  /\ UNCHANGED <<laneQueue, laneActive, finishOrder>>
      /\ steered' = [steered EXCEPT ![t] = <<>>]
      /\ UNCHANGED <<queueLog, submitOrder>>
      /\ UNCHANGED <<subVars, polVars, rotVars, auxVars>>

(***************************************************************************)
(* Auth profile rotation and the result of a turn: runEmbeddedPiAgent from *)
(* resolveAuthProfileOrder to its return or throw, for one turn at a time  *)
(* of an agent whose auth profile store other turns share. The turn is     *)
(* started without an abortSignal; the pinned profile, when given, is      *)
(* configured for the provider.                                            *)
(***************************************************************************)
Profiles == 1..NumProfiles

\* undefined as a profile id: the only candidate when the order is empty.
NoProfile == 0

\* The order of the profiles in the configuration.
ConfiguredOrder == [i \in 1..NumProfiles |-> i]

FailoverReasons == {"auth", "timeout"}

\* What session.prompt and the last assistant message report of an attempt:
\* err says where the error is ("prompt": session.prompt rejected;
\* "assistant": the last assistant message carries an error), class what its
\* text matches. The last assistant message of an attempt whose prompt
\* rejected carries no error.
NoError == [err |-> "none", class |-> "none"]

AttemptOutcomes ==
  {NoError} \cup [err : {"prompt", "assistant"},
                  class : FailoverReasons \cup {"overflow", "thinking", "other"}]

classifyFailoverReason(o) == IF o.class \in FailoverReasons THEN o.class ELSE "none"

isFailoverErrorMessage(o) == o.class \in FailoverReasons

isFailoverAssistantError(o) == o.err = "assistant" /\ o.class \in FailoverReasons

resolveFailoverStatus(reason) ==
  CASE reason = "auth" -> 401
    [] reason = "timeout" -> 408
    [] OTHER -> 0

NoFailover == [reason |-> "none", provider |-> FALSE, model |-> FALSE,
               profileId |-> NoProfile, status |-> 0]

\* kind: "none" while the turn runs, "returned" or "thrown" once it ended.
\* isError: the number of payloads flagged isError; metaAborted: meta.aborted
\* ("absent" where the result has no such field); error: what was thrown;
\* outcome, aborted, timedOut: the last attempt as it ended; used: the
\* profile whose usage the turn recorded in the store.
NoResult == [kind |-> "none", isError |-> 0, metaAborted |-> "absent",
             error |-> "none", failover |-> NoFailover,
             outcome |-> NoError, aborted |-> FALSE, timedOut |-> FALSE,
             untried |-> {}, used |-> NoProfile]

\* attempted: the profile of every attempt, in order; lastOutcome: what the
\* attempt that ended last reported; allFailover: every attempt that ended
\* reported an error of a failover class; marked: the profiles this turn put in cooldown;
\* cooling: the attempts (by position) whose profile was in cooldown when
\* it was selected; again: the attempts whose profile this turn had put in
\* cooldown before it was selected; examined: the position of the last candidate whose
\* credential the turn tried to resolve.
FreshRot == [pc |-> "idle", explicitProfileId |-> NoProfile,
             fallbackConfigured |-> FALSE, unusable |-> {},
             profileCandidates |-> <<>>, profileIndex |-> 0, examined |-> 0,
             lastProfileId |-> NoProfile,
             thinkLevel |-> "off", attemptedThinking |-> {},
             aborted |-> FALSE, timedOut |-> FALSE,
             attempted |-> <<>>, lastOutcome |-> NoError,
             allFailover |-> TRUE, marked |-> {},
             cooling |-> {}, again |-> {}, result |-> NoResult]

InitRot ==
  /\ authStore = [p \in Profiles |-> FALSE]
  /\ rot = FreshRot

\* resolveAuthProfileOrder: the pinned profile first, then the configured
\* profiles that are not in cooldown.
resolveAuthProfileOrder(store, preferredProfile) ==
  LET Usable(p) == ~store[p] /\ p # preferredProfile
      rest == SelectSeq(ConfiguredOrder, Usable)
  IN  IF preferredProfile = NoProfile THEN rest ELSE <<preferredProfile>> \o rest

\* markAuthProfileFailure: the profile is in cooldown.
markAuthProfileFailure(store, profileId) ==
  IF profileId \in Profiles THEN [store EXCEPT ![profileId] = TRUE] ELSE store

\* markAuthProfileGood: the profile's cooldown is cleared.
markAuthProfileGood(store, profileId) ==
  IF profileId \in Profiles THEN [store EXCEPT ![profileId] = FALSE] ELSE store

\* getApiKeyForModel resolves a credential for the candidate.
Resolves(r, candidate) == candidate \notin r.unusable

\* advanceAuthProfile: the first later candidate whose credential resolves;
\* "throw" when the pinned profile is met and does not resolve.
advanceAuthProfile(r, from) ==
  LET later == {i \in (from + 1)..Len(r.profileCandidates) :
                  \/ Resolves(r, r.profileCandidates[i])
                  \/ r.profileCandidates[i] = r.explicitProfileId
                       /\ r.explicitProfileId # NoProfile}
  IN  IF later = {} THEN [kind |-> "none", index |-> 0]
      ELSE LET i == CHOOSE i \in later : \A j \in later : i <= j
           IN  IF Resolves(r, r.profileCandidates[i])
               THEN [kind |-> "ok", index |-> i]
               ELSE [kind |-> "throw", index |-> i]

\* A loop head that does not record the thinking level it attempts.
BeginAttemptForgetsLevel(r, store, i) ==
  [r EXCEPT !.pc = "prompting",
            !.profileIndex = i,
            !.examined = i,
            !.lastProfileId = r.profileCandidates[i],
            !.aborted = FALSE,
            !.timedOut = FALSE,
            !.attempted = Append(@, r.profileCandidates[i])]

\* The loop head of an attempt with the candidate at index i.
BeginAttempt(r, store, i) ==
  LET candidate == r.profileCandidates[i]
  IN  [r EXCEPT !.pc = "prompting",
                !.profileIndex = i,
                !.examined = i,
                !.lastProfileId = candidate,
                !.aborted = FALSE,
                !.timedOut = FALSE,
                !.attemptedThinking = @ \cup {r.thinkLevel},
                !.attempted = Append(@, candidate),
                !.cooling = IF candidate \in Profiles /\ store[candidate]
                            THEN @ \cup {Len(r.attempted) + 1} ELSE @,
                !.again = IF candidate \in r.marked
                          THEN @ \cup {Len(r.attempted) + 1} ELSE @]

\* A rotation that keeps the thinking level of the attempt that failed.
RotatedKeepsThinking(r, store, i) == BeginAttempt(r, store, i)

\* advanceAuthProfile succeeded: thinkLevel and attemptedThinking are reset.
Rotated(r, store, i) ==
  BeginAttempt([r EXCEPT !.thinkLevel = "off", !.attemptedThinking = {}], store, i)

\* The candidates the turn has not tried to resolve a credential for.
Untried(r) ==
  {r.profileCandidates[i] : i \in (r.examined + 1)..Len(r.profileCandidates)}

\* advanceAuthProfile ran and found no later candidate.
NoneLeft(r) == [r EXCEPT !.examined = Len(r.profileCandidates)]

Ended(r, kind, isError, metaAborted, error, failover) ==
  [r EXCEPT !.pc = kind,
            !.result = [kind |-> kind, isError |-> isError,
                        metaAborted |-> metaAborted, error |-> error,
                        failover |-> failover,
                        outcome |-> r.lastOutcome,
                        aborted |-> r.aborted, timedOut |-> r.timedOut,
                        untried |-> Untried(r), used |-> NoProfile]]

\* throw new FailoverError(message, {reason, provider, model, profileId, status})
FailoverError(r, o) ==
  LET assistantFailoverReason ==
        IF o.err = "assistant" THEN classifyFailoverReason(o) ELSE "none"
      reason == IF assistantFailoverReason = "none" THEN "unknown"
                ELSE assistantFailoverReason
      timeoutMessage == (o.err = "assistant" /\ o.class = "timeout")
                          \/ (o.err # "assistant" /\ r.timedOut)
  IN  [reason |-> reason, provider |-> TRUE, model |-> TRUE,
       profileId |-> r.lastProfileId,
       status |-> IF resolveFailoverStatus(reason) # 0
                  THEN resolveFailoverStatus(reason)
                  ELSE IF timeoutMessage THEN 408 ELSE 0]

\* markAuthProfileUsed: the usage of the profile is recorded for the
\* round-robin order; the record is kept with the result of the turn.
markAuthProfileUsed(r, profileId) ==
  IF profileId # NoProfile THEN [r EXCEPT !.result.used = profileId] ELSE r

\* A return that leaves the store as it is.
ReturnUnmarked(r, store, o) ==
  [rot |-> Ended(r, "returned", IF o.err = "assistant" THEN 1 ELSE 0,
                 r.aborted, "none", NoFailover),
   store |-> store]

ReturnWithoutError(r, store, o) ==
  [rot |-> Ended(r, "returned", 0, r.aborted, "none", NoFailover),
   store |-> markAuthProfileGood(store, r.lastProfileId)]

\* The result object: one isError payload when the last assistant message
\* carries an error; markAuthProfileGood and markAuthProfileUsed for the
\* profile used.
ReturnResult(r, store, o) ==
  [rot |-> markAuthProfileUsed(
             Ended(r, "returned", IF o.err = "assistant" THEN 1 ELSE 0,
                   r.aborted, "none", NoFailover),
             r.lastProfileId),
   store |-> markAuthProfileGood(store, r.lastProfileId)]

PromptErrorThrown(r, store, o) ==
  {[rot |-> Ended(r, "thrown", 0, "absent", "promptError", NoFailover),
    store |-> store]}

\* A prompt error of an attempt that was not aborted.
AfterPromptError(r, store, o) ==
  LET promptFailoverReason == classifyFailoverReason(o)
      mark == promptFailoverReason \notin {"none", "timeout"}
                /\ r.lastProfileId # NoProfile
      store1 == IF mark THEN markAuthProfileFailure(store, r.lastProfileId) ELSE store
      r1 == IF mark THEN [r EXCEPT !.marked = @ \cup {r.lastProfileId}] ELSE r
      tryAdvance == isFailoverErrorMessage(o) /\ promptFailoverReason # "timeout"
      adv == advanceAuthProfile(r1, r1.profileIndex)
      levels == ThinkLevels \ r1.attemptedThinking
  IN  IF o.class = "overflow"
      THEN {[rot |-> Ended(r, "returned", 1, "absent", "none", NoFailover),
             store |-> store]}
      ELSE IF tryAdvance /\ adv.kind = "ok"
      THEN {[rot |-> Rotated(r1, store1, adv.index), store |-> store1]}
      ELSE IF tryAdvance /\ adv.kind = "throw"
      THEN {[rot |-> Ended(r1, "thrown", 0, "absent", "credential", NoFailover),
             store |-> store1]}
      ELSE IF o.class = "thinking" /\ levels # {}
      THEN {[rot |-> BeginAttempt([r1 EXCEPT !.thinkLevel = lvl], store1,
                                  r1.profileIndex),
             store |-> store1] : lvl \in levels}
      ELSE {[rot |-> Ended(IF tryAdvance THEN NoneLeft(r1) ELSE r1, "thrown", 0,
                           "absent", "promptError", NoFailover),
             store |-> store1]}

\* The attempt's prompt resolved, or it was aborted: the last assistant
\* message decides.
AfterAttempt(r, store, o) ==
  LET a == IF o.err = "assistant" THEN o ELSE NoError
      levels == ThinkLevels \ r.attemptedThinking
      shouldRotate == (~r.aborted /\ isFailoverAssistantError(a)) \/ r.timedOut
      mark == r.lastProfileId # NoProfile
      store1 == IF mark THEN markAuthProfileFailure(store, r.lastProfileId) ELSE store
      r1 == IF mark THEN [r EXCEPT !.marked = @ \cup {r.lastProfileId}] ELSE r
      adv == advanceAuthProfile(r1, r1.profileIndex)
  IN  IF a.class = "thinking" /\ levels # {} /\ ~r.aborted
      THEN {[rot |-> BeginAttempt([r EXCEPT !.thinkLevel = lvl], store,
                                  r.profileIndex),
             store |-> store] : lvl \in levels}
      ELSE IF ~shouldRotate THEN {ReturnResult(r, store, a)}
      ELSE IF adv.kind = "ok"
      THEN {[rot |-> Rotated(r1, store1, adv.index), store |-> store1]}
      ELSE IF adv.kind = "throw"
      THEN {[rot |-> Ended(r1, "thrown", 0, "absent", "credential", NoFailover),
             store |-> store1]}
      ELSE IF r.fallbackConfigured
      THEN {[rot |-> Ended(NoneLeft(r1), "thrown", 0, "absent", "FailoverError",
                           FailoverError(r1, a)),
             store |-> store1]}
      ELSE {ReturnResult(NoneLeft(r1), store1, a)}

PromptErrorAlways(r, store, o) ==
  IF o.err = "prompt" THEN AfterPromptError(r, store, o) ELSE AfterAttempt(r, store, o)

\* if (promptError && !aborted) { ... } and what follows it.
DecideResult(r, store, o) ==
  IF o.err = "prompt" /\ ~r.aborted
  THEN AfterPromptError(r, store, o)
  ELSE AfterAttempt(r, store, o)

\* runEmbeddedPiAgent up to the first attempt: the candidate order is
\* resolved from the store, the credential of the first candidate is
\* applied, or of the next one that resolves.
RotStart(explicitProfileId, fallbackConfigured, unusable) ==
  /\ rot.pc = "idle"
  /\ LET profileOrder == resolveAuthProfileOrder(authStore, explicitProfileId)
         r == [rot EXCEPT !.explicitProfileId = explicitProfileId,
                          !.fallbackConfigured = fallbackConfigured,
                          !.unusable = unusable,
                          !.profileCandidates =
                             IF Len(profileOrder) > 0 THEN profileOrder
                             ELSE <<NoProfile>>]
         adv == advanceAuthProfile(r, 1)
         credentialError ==
           [r EXCEPT !.pc = "thrown",
                     !.result = [NoResult EXCEPT !.kind = "thrown",
                                                 !.error = "credential"]]
     IN  rot' = IF Resolves(r, r.profileCandidates[1])
                THEN BeginAttempt(r, authStore, 1)
                ELSE IF r.profileCandidates[1] = explicitProfileId
                THEN credentialError
                ELSE IF adv.kind = "ok"
                THEN Rotated(r, authStore, adv.index)
                ELSE credentialError
  /\ UNCHANGED <<authStore, runVars, subVars, polVars, auxVars>>

\* The abortTimer of the attempt fires: abortRun(true).
RotTimeout ==
  /\ rot.pc = "prompting"
  /\ ~rot.timedOut
  /\ rot' = [rot EXCEPT !.aborted = TRUE, !.timedOut = TRUE]
  /\ UNCHANGED <<authStore, runVars, subVars, polVars, auxVars>>

\* abortEmbeddedPiRun reaches the attempt's handle: abortRun().
RotAbort ==
  /\ rot.pc = "prompting"
  /\ ~rot.aborted
  /\ rot' = [rot EXCEPT !.aborted = TRUE]
  /\ UNCHANGED <<authStore, runVars, subVars, polVars, auxVars>>

Reported(r, o) ==
  [r EXCEPT !.lastOutcome = o,
            !.allFailover = @ /\ o.class \in FailoverReasons]

\* The attempt ends with outcome o: the loop continues with another profile
\* or thinking level, or the turn returns or throws.
RotAttemptEnds(o) ==
  /\ rot.pc = "prompting"
  /\ \E next \in DecideResult(Reported(rot, o), authStore, o) :
       /\ rot' = next.rot
       /\ authStore' = next.store
  /\ UNCHANGED <<runVars, subVars, polVars, auxVars>>

\* The caller has the result; the next turn of the agent may start.
RotReset ==
  /\ rot.pc \in {"returned", "thrown"}
  /\ rot' = FreshRot
  /\ UNCHANGED <<authStore, runVars, subVars, polVars, auxVars>>

\* A turn of the agent that runs in another lane puts the profile it used
\* in cooldown in the store the turns share.
OtherTurnFails(p) ==
  /\ ~authStore[p]
  /\ authStore' = markAuthProfileFailure(authStore, p)
  /\ UNCHANGED <<rot, runVars, subVars, polVars, auxVars>>

(***************************************************************************)
(* The reply queue policy: getReplyFromConfig from the queue settings on,  *)
(* and runReplyAgent, which it calls with the flags it sampled.            *)
(***************************************************************************)
QueueModes == {"steer", "followup", "collect", "steer-backlog", "interrupt"}

PolicyTurns == 1..MaxInbound

\* phase "sampled": the flags are computed and runReplyAgent has not acted.
\* n numbers the inbound messages; interrupted, steerCalled, started and
\* enqueued record what the handling of message n did.
NoInbound == [n |-> 0, phase |-> "idle", key |-> "a", mode |-> "collect",
              isActive |-> FALSE, isStreaming |-> FALSE, interrupted |-> FALSE,
              steerCalled |-> FALSE, started |-> NoTurn, enqueued |-> FALSE]

InitPol ==
  /\ inbound = NoInbound
  /\ followups = [k \in SessionKeys |-> <<>>]
  /\ turnMsg = [t \in Turns |-> {}]

\* getQueueSize (process/command-queue): the queued tasks of the lane and
\* the one it runs.
getQueueSize(lane) ==
  Len(laneQueue[lane]) + (IF laneActive[lane] = NoTurn THEN 0 ELSE 1)

\* clearCommandLane (process/command-queue): the queued tasks of the lane
\* are dropped and never start.
clearCommandLane(tn, lane) ==
  [t \in DOMAIN tn |->
     IF \E i \in 1..Len(laneQueue[lane]) : laneQueue[lane][i] = t
     THEN [tn[t] EXCEPT !.pc = "cleared"]
     ELSE tn[t]]

\* abortEmbeddedPiRun as a function of the turns: handle.abort() of the
\* registered attempt, nothing when no handle is registered.
abortEmbeddedPiRun(tn, sessionId) ==
  LET handle == ACTIVE_EMBEDDED_RUNS[sessionId]
  IN  IF handle = NoHandle THEN tn
      ELSE [tn EXCEPT ![handle[1]].aborted = TRUE]

SteerModeOnly(mode) == mode = "steer"

shouldSteer(mode) == mode \in {"steer", "steer-backlog"}

FollowupAlways(mode) == mode \in {"followup", "collect"}

shouldFollowup(mode) == mode \in {"followup", "collect", "steer-backlog"}

\* getReplyFromConfig from the lane size to the sampled flags: in interrupt
\* mode with work on the session lane the lane is cleared and the registered
\* run aborted; then isActive and isStreaming are read from the registry.
PolicySample(key, mode) ==
  LET lane == resolveSessionLane(key)
      sid == SessionIdOfKey(key)
      interrupt == mode = "interrupt" /\ getQueueSize(lane) > 0
  IN  /\ inbound.phase = "idle"
      /\ inbound.n < MaxInbound
      /\ turn' = IF interrupt
                 THEN abortEmbeddedPiRun(clearCommandLane(turn, lane), sid)
                 ELSE turn
      /\ laneQueue' = IF interrupt THEN [laneQueue EXCEPT ![lane] = <<>>]
                      ELSE laneQueue
      /\ inbound' = [n |-> inbound.n + 1, phase |-> "sampled", key |-> key,
                     mode |-> mode,
                     isActive |-> isEmbeddedPiRunActive(sid),
                     isStreaming |-> isEmbeddedPiRunStreaming(sid),
                     interrupted |-> interrupt,
                     steerCalled |-> FALSE, started |-> NoTurn,
                     enqueued |-> FALSE]
      /\ UNCHANGED <<ACTIVE_EMBEDDED_RUNS, EMBEDDED_RUN_WAITERS, waiter,
                     laneActive, sess, steered, queueLog, submitOrder,
                     finishOrder, followups, turnMsg>>
      /\ UNCHANGED <<subVars, rotVars, auxVars>>

\* A new turn for the messages: runEmbeddedPiAgent with the session key.
StartTurn(key, msgs) ==
  LET t == Len(submitOrder) + 1
      L == SubmitTask(t, key, "")
  IN  /\ t \in DOMAIN turn
      /\ laneQueue' = L.q
      /\ laneActive' = L.a
      /\ turn' = L.turn
      /\ submitOrder' = Append(submitOrder, t)
      /\ turnMsg' = [turnMsg EXCEPT ![t] = msgs]

\* runReplyAgent with the sampled flags: steer into the streaming run; keep
\* the message as a FollowupRun behind an active run in the followup modes;
\* otherwise start a turn with the message. Where steering did not succeed
\* in steer mode the message is kept as a FollowupRun or starts a turn.
RunReplyAgent ==
  LET key == inbound.key
      sid == SessionIdOfKey(key)
      msg == inbound.n
      trySteer == shouldSteer(inbound.mode) /\ inbound.isActive /\ inbound.isStreaming
  IN  /\ inbound.phase = "sampled"
      /\ IF trySteer
         THEN \E text \in SteerTexts : queueEmbeddedPiMessage(sid, text)
         ELSE UNCHANGED <<queueLog, steered>>
      /\ LET done == trySteer /\ queueLog'.result /\ ~shouldFollowup(inbound.mode)
             keep == inbound.isActive /\ shouldFollowup(inbound.mode)
             either == inbound.isActive /\ inbound.mode = "steer" /\ ~done
         IN  \E enqueue \in BOOLEAN :
               /\ enqueue = IF done THEN FALSE ELSE IF keep THEN TRUE
                            ELSE IF either THEN enqueue ELSE FALSE
               /\ IF done
                  THEN UNCHANGED <<laneQueue, laneActive, turn, submitOrder,
                                   turnMsg, followups>>
                  ELSE IF enqueue
                  THEN /\ followups' = [followups EXCEPT ![key] = Append(@, msg)]
                       /\ UNCHANGED <<laneQueue, laneActive, turn, submitOrder,
                                      turnMsg>>
                  ELSE /\ StartTurn(key, {msg})
                       /\ UNCHANGED followups
               /\ inbound' = [inbound EXCEPT
                                !.phase = "idle",
                                !.steerCalled = trySteer,
                                !.enqueued = enqueue,
                                !.started = IF done \/ enqueue THEN NoTurn
                                            ELSE Len(submitOrder) + 1]
      /\ UNCHANGED <<ACTIVE_EMBEDDED_RUNS, EMBEDDED_RUN_WAITERS, waiter, sess,
                     finishOrder>>
      /\ UNCHANGED <<subVars, rotVars, auxVars>>

\* The FollowupRuns of a session are consumed when its lane is free: one at a
\* time, or merged into one prompt.
FollowupDrain(key, count) ==
  /\ followups[key] # <<>>
  /\ count \in {1, Len(followups[key])}
  /\ getQueueSize(resolveSessionLane(key)) = 0
  /\ StartTurn(key, {followups[key][i] : i \in 1..count})
  /\ followups' = [followups EXCEPT ![key] = SubSeq(@, count + 1, Len(@))]
  /\ UNCHANGED <<ACTIVE_EMBEDDED_RUNS, EMBEDDED_RUN_WAITERS, waiter, sess,
                 steered, queueLog, finishOrder, inbound>>
  /\ UNCHANGED <<subVars, rotVars, auxVars>>

(***************************************************************************)
(* The streaming reply reconciler: subscribeEmbeddedPiSession.             *)
(*                                                                         *)
(* A text is a sequence of tokens; a token is a tag, a word or a           *)
(* whitespace character, so a tag is never cut by a chunk boundary.        *)
(* The event stream carries no media, no structured thinking blocks, no    *)
(* block chunker (blockReplyChunking is absent) and reasoningMode is "off". *)
(* A compaction that will retry abandons the message in progress: the      *)
(* provider begins the retry with a message_start.                         *)
(***************************************************************************)
ThinkOpen == "<think>"
ThinkClose == "</think>"
FinalStart == "<final>"
FinalEnd == "</final>"
Whitespace == {" ", "\n"}
\* The words the provider puts between the reasoning markers.
ReasoningWords == {"hid", "den"}
\* JavaScript's undefined, for the two "last emitted" variables.
Undefined == <<"undefined">>

\* The assistant messages the provider produces, as text blocks.
ProviderMessages ==
  { << <<ThinkOpen, "hid", "den", ThinkClose, "visible">> >>,
    << <<"visible">>, <<"more">>, <<"visible">> >>,
    << <<"visible", " ">> >>,
    << <<ThinkOpen, "hid", ThinkClose, FinalStart, "visible", FinalEnd>> >> }

\* The texts messaging tools are called with.
ToolTexts == { <<"visible">>, <<"more">> }

SubParams == [blockReplyBreak : {"text_end", "message_end"},
              enforceFinalTag : BOOLEAN,
              onBlockReply : BOOLEAN]

DefaultParams == [blockReplyBreak |-> "text_end", enforceFinalTag |-> FALSE,
                  onBlockReply |-> FALSE]

Range(seq) == {seq[i] : i \in 1..Len(seq)}

RECURSIVE TrimStart(_)
TrimStart(text) ==
  IF text # <<>> /\ Head(text) \in Whitespace THEN TrimStart(Tail(text)) ELSE text

RECURSIVE TrimEnd(_)
TrimEnd(text) ==
  IF text # <<>> /\ text[Len(text)] \in Whitespace
  THEN TrimEnd(SubSeq(text, 1, Len(text) - 1))
  ELSE text

Trim(text) == TrimEnd(TrimStart(text))

StartsWith(text, prefix) ==
  Len(prefix) <= Len(text) /\ SubSeq(text, 1, Len(prefix)) = prefix

Includes(text, part) ==
  \E i \in 0..(Len(text) - Len(part)) : SubSeq(text, i + 1, i + Len(part)) = part

Has(text, tag) == \E i \in 1..Len(text) : text[i] = tag

IndexOf(text, tag) ==
  CHOOSE i \in 1..Len(text) : text[i] = tag /\ \A j \in 1..(i - 1) : text[j] # tag

\* text.replace(re, "") with a regex that is not global: the first match goes.
RemoveFirst(text, tag) ==
  IF Has(text, tag)
  THEN SubSeq(text, 1, IndexOf(text, tag) - 1)
         \o SubSeq(text, IndexOf(text, tag) + 1, Len(text))
  ELSE text

\* The scan shared by stripThinkingSegments and stripBlockThinkingSegments:
\* every tag sets the inside-reasoning flag (open: true, close: false), text
\* is kept while the flag is false.
RECURSIVE ScanThinking(_, _)
ScanThinking(text, inThinking) ==
  IF text = <<>> THEN [out |-> <<>>, active |-> inThinking]
  ELSE IF Head(text) \in {ThinkOpen, ThinkClose}
  THEN ScanThinking(Tail(text), Head(text) = ThinkOpen)
  ELSE LET r == ScanThinking(Tail(text), inThinking)
       IN  [out |-> IF inThinking THEN r.out ELSE <<Head(text)>> \o r.out,
            active |-> r.active]

stripThinkingSegments(text) == ScanThinking(text, FALSE).out

stripUnpairedThinkingTags(text) ==
  LET hasOpen == Has(text, ThinkOpen)
      hasClose == Has(text, ThinkClose)
  IN  IF hasOpen /\ hasClose THEN text
      ELSE IF ~hasOpen THEN RemoveFirst(text, ThinkClose)
      ELSE RemoveFirst(text, ThinkOpen)

sanitizeFinalText(text) ==
  LET hasStart == Has(text, FinalStart)
      hasEnd == Has(text, FinalEnd)
  IN  IF hasStart /\ ~hasEnd THEN RemoveFirst(text, FinalStart)
      ELSE IF ~hasStart /\ hasEnd THEN RemoveFirst(text, FinalEnd)
      ELSE text

extractFinalText(text) ==
  LET cleaned == sanitizeFinalText(text)
  IN  IF ~Has(cleaned, FinalStart) THEN Undefined
      ELSE LET afterStart == SubSeq(cleaned, IndexOf(cleaned, FinalStart) + 1,
                                    Len(cleaned))
           IN  IF Has(afterStart, FinalEnd)
               THEN SubSeq(afterStart, 1, IndexOf(afterStart, FinalEnd) - 1)
               ELSE afterStart

\* The text of the assistant stream computed from the delta buffer.
StreamText(p, buffer) ==
  LET cleaned == IF p.enforceFinalTag
                 THEN stripThinkingSegments(stripUnpairedThinkingTags(buffer))
                 ELSE stripThinkingSegments(buffer)
  IN  IF p.enforceFinalTag
      THEN IF extractFinalText(cleaned) # Undefined
           THEN Trim(extractFinalText(cleaned))
           ELSE Trim(cleaned)
      ELSE Trim(cleaned)

\* splitThinkingTaggedText: the text parts of a block that begins with a tag
\* and holds reasoning segments; ok is FALSE where the code returns null.
PushText(parts, value) == IF value = <<>> THEN parts ELSE Append(parts, value)

RECURSIVE SplitScan(_, _, _, _, _)
SplitScan(rest, inThinking, run, parts, hasThinking) ==
  IF rest = <<>>
  THEN [ok |-> ~inThinking /\ hasThinking, parts |-> PushText(parts, run)]
  ELSE IF Head(rest) = ThinkOpen /\ ~inThinking
  THEN SplitScan(Tail(rest), TRUE, <<>>, PushText(parts, run), hasThinking)
  ELSE IF Head(rest) = ThinkClose /\ inThinking
  THEN SplitScan(Tail(rest), FALSE, <<>>, parts, hasThinking \/ Trim(run) # <<>>)
  ELSE SplitScan(Tail(rest), inThinking, Append(run, Head(rest)), parts, hasThinking)

splitThinkingTaggedText(text) ==
  IF \/ TrimStart(text) = <<>>
     \/ Head(TrimStart(text)) \notin {ThinkOpen, ThinkClose, FinalStart, FinalEnd}
     \/ ~Has(text, ThinkOpen)
     \/ ~Has(text, ThinkClose)
  THEN [ok |-> FALSE, parts |-> <<>>]
  ELSE SplitScan(text, FALSE, <<>>, <<>>, FALSE)

RECURSIVE KeepTexts(_)
KeepTexts(parts) ==
  IF parts = <<>> THEN <<>>
  ELSE PushText(<<>>, TrimStart(Head(parts))) \o KeepTexts(Tail(parts))

\* promoteThinkingTagsToBlocks, followed to the text blocks it leaves.
RECURSIVE promoteThinkingTagsToBlocks(_)
promoteThinkingTagsToBlocks(content) ==
  IF content = <<>> THEN <<>>
  ELSE LET split == splitThinkingTaggedText(Head(content))
       IN  (IF split.ok THEN KeepTexts(split.parts) ELSE <<Head(content)>>)
             \o promoteThinkingTagsToBlocks(Tail(content))

RECURSIVE JoinLines(_)
JoinLines(blocks) ==
  IF blocks = <<>> THEN <<>>
  ELSE IF Len(blocks) = 1 THEN Head(blocks)
  ELSE Head(blocks) \o <<"\n">> \o JoinLines(Tail(blocks))

RECURSIVE TrimmedBlocks(_)
TrimmedBlocks(content) ==
  IF content = <<>> THEN <<>>
  ELSE PushText(<<>>, Trim(Head(content))) \o TrimmedBlocks(Tail(content))

extractAssistantText(content) == Trim(JoinLines(TrimmedBlocks(content)))

\* The answer text message_end computes from the assistant message.
FinalAnswerText(p, content) ==
  LET rawText == extractAssistantText(promoteThinkingTagsToBlocks(content))
      cleaned == IF p.enforceFinalTag
                 THEN stripThinkingSegments(stripUnpairedThinkingTags(rawText))
                 ELSE stripThinkingSegments(rawText)
  IN  IF p.enforceFinalTag /\ cleaned # <<>>
      THEN IF extractFinalText(cleaned) # Undefined
           THEN Trim(extractFinalText(cleaned))
           ELSE cleaned
      ELSE cleaned

\* isMessagingToolDuplicate (pi-embedded-helpers): the text exactly matches a
\* text sent by a messaging tool.
isMessagingToolDuplicate(text, sentTexts) == \E i \in 1..Len(sentTexts) : sentTexts[i] = text

ResolveChunkAlwaysContent(evtType, delta, content, buffer) ==
  IF evtType = "text_delta" \/ delta # <<>> THEN delta ELSE content

\* A resolution that compares the content whether or not there is a delta.
ResolveChunkIgnoresDelta(evtType, delta, content, buffer) ==
  IF StartsWith(content, buffer)
  THEN SubSeq(content, Len(buffer) + 1, Len(content))
  ELSE IF Includes(buffer, content) THEN <<>>
  ELSE content

\* A resolution that drops a content that does not extend the buffer.
ResolveChunkDropsReset(evtType, delta, content, buffer) ==
  IF evtType = "text_delta" \/ delta # <<>> THEN delta
  ELSE IF StartsWith(content, buffer)
  THEN SubSeq(content, Len(buffer) + 1, Len(content))
  ELSE <<>>

\* Chunk resolution of a text event.
resolveChunk(evtType, delta, content, buffer) ==
  IF evtType = "text_delta" THEN delta
  ELSE IF delta # <<>> THEN delta
  ELSE IF content # <<>>
  THEN IF StartsWith(content, buffer)
       THEN SubSeq(content, Len(buffer) + 1, Len(content))
       ELSE IF StartsWith(buffer, content) THEN <<>>
       ELSE IF ~Includes(buffer, content) THEN content
       ELSE <<>>
  ELSE <<>>

CommitAlways(sentTexts, pendingText, isError) == Append(sentTexts, pendingText)

\* Commit messaging tool text on success, discard on error.
CommitMessagingText(sentTexts, pendingText, isError) ==
  IF ~isError THEN Append(sentTexts, pendingText) ELSE sentTexts

\* compactionRetryPromise: the promise exists (it is not null). gates: the
\* promise each call of waitForCompactionRetry returned: "unused" before the
\* call, "microtask" while its microtask is queued, "shared" when it is
\* compactionRetryPromise itself, "chained" when it resolves with
\* compactionRetryPromise (.then(resolve)), "resolved".
FreshSub == [deltaBuffer |-> <<>>, blockBuffer |-> <<>>,
             blockThinkingActive |-> FALSE,
             lastStreamedAssistant |-> Undefined,
             lastBlockReplyText |-> Undefined,
             assistantTextBaseline |-> 0,
             assistantTexts |-> <<>>,
             messagingToolSentTexts |-> <<>>,
             pendingMessagingTexts |-> <<>>,
             compactionInFlight |-> FALSE,
             pendingCompactionRetry |-> 0,
             compactionRetryPromise |-> FALSE,
             gates |-> [g \in 1..MaxGates |-> "unused"]]

\* phase: "idle" before the first message, "streaming" between message_start
\* and message_end, "ended" after message_end. block and offset point at the
\* next token the provider sends. retried: a compaction end with willRetry
\* has arrived; retryAt: the messages started before the last one.
FreshStream == [phase |-> "idle", message |-> <<>>, block |-> 1, offset |-> 0,
                messages |-> 0, replays |-> 0, toolCalls |-> 0,
                retried |-> FALSE, retryAt |-> 0]

\* What the callbacks and the log received since the last message_start:
\* blockReplies: the texts given to onBlockReply;
\* partialReplies: the text the assistant stream and onPartialReply got last;
\* skipLog: the texts of the "Skipping ... already sent via messaging tool"
\* log lines. okTexts: the texts of the tool calls that ended without error;
\* msgStartLen: the length of assistantTexts at the last message_start.
FreshObserved == [blockReplies |-> <<>>, partialReplies |-> {}, skipLog |-> {},
                  okTexts |-> {}, failedTexts |-> {}, msgStartLen |-> 0]

\* hasDelta: the event carried a raw delta; known: the delta buffer held the
\* event's content before the event;
\* pending: the block buffer held text before the event; emitted: the
\* handler of the event called onBlockReply.
Event(type, delta, content, emitted) ==
  [type |-> type, hasDelta |-> delta # <<>>, content |-> content,
   known |-> content # <<>> /\ Includes(sub.deltaBuffer, content),
   pending |-> sub.blockBuffer # <<>>,
   emitted |-> emitted]

NoEvent == [type |-> "none", hasDelta |-> FALSE, content |-> <<>>,
            known |-> FALSE, pending |-> FALSE, emitted |-> FALSE]

InitSubWith(p) ==
  /\ params = p
  /\ sub = FreshSub
  /\ stream = FreshStream
  /\ observed = FreshObserved
  /\ lastEvt = NoEvent

InitSub == InitSubWith(DefaultParams)

\* emitBlockChunk: the closure state and the observations after the call.
emitBlockChunk(s, o, text) ==
  LET r == ScanThinking(text, s.blockThinkingActive)
      chunk == TrimEnd(r.out)
      s1 == [s EXCEPT !.blockThinkingActive = r.active]
  IN  IF chunk = <<>> THEN [sub |-> s1, obs |-> o]
      ELSE IF chunk = s.lastBlockReplyText THEN [sub |-> s1, obs |-> o]
      ELSE IF isMessagingToolDuplicate(chunk, s.messagingToolSentTexts)
      THEN [sub |-> s1, obs |-> [o EXCEPT !.skipLog = @ \cup {chunk}]]
      ELSE [sub |-> [s1 EXCEPT !.lastBlockReplyText = chunk,
                               !.assistantTexts = Append(@, chunk)],
            obs |-> [o EXCEPT !.blockReplies =
                        IF params.onBlockReply THEN Append(@, chunk) ELSE @]]

\* message_update with text_delta or text_end of an assistant message.
OnAssistantText(evtType, delta, content) ==
  LET chunk == resolveChunk(evtType, delta, content, sub.deltaBuffer)
      deltaBuffer == sub.deltaBuffer \o chunk
      blockBuffer == sub.blockBuffer \o chunk
      next == StreamText(params, deltaBuffer)
      partial == next # <<>> /\ next # sub.lastStreamedAssistant
      s1 == [sub EXCEPT !.deltaBuffer = deltaBuffer,
                        !.blockBuffer = blockBuffer,
                        !.lastStreamedAssistant = IF partial THEN next ELSE @]
      o1 == [observed EXCEPT !.partialReplies = IF partial THEN {next} ELSE @]
      flush == /\ evtType = "text_end"
               /\ params.blockReplyBreak = "text_end"
               /\ Len(blockBuffer) > 0
      r == IF flush THEN emitBlockChunk(s1, o1, blockBuffer)
           ELSE [sub |-> s1, obs |-> o1]
  IN  /\ sub' = IF flush THEN [r.sub EXCEPT !.blockBuffer = <<>>] ELSE r.sub
      /\ observed' = r.obs
      /\ lastEvt' = Event(evtType, delta, content,
                           r.obs.blockReplies # observed.blockReplies)

\* message_start of an assistant message: the provider begins a message once
\* the tool calls of the previous one have ended.
MessageStartUpTo(m, max) ==
  /\ stream.phase # "streaming"
  /\ sub.pendingMessagingTexts = <<>>
  /\ stream.messages < max
  /\ stream' = [stream EXCEPT !.phase = "streaming", !.message = m, !.block = 1,
                              !.offset = 0, !.messages = @ + 1]
  /\ sub' = [sub EXCEPT !.deltaBuffer = <<>>, !.blockBuffer = <<>>,
                        !.blockThinkingActive = FALSE,
                        !.lastStreamedAssistant = Undefined,
                        !.lastBlockReplyText = Undefined,
                        !.assistantTextBaseline = Len(sub.assistantTexts)]
  /\ observed' = [observed EXCEPT !.blockReplies = <<>>,
                                  !.partialReplies = {},
                                  !.skipLog = {},
                                  !.msgStartLen = Len(sub.assistantTexts)]
  /\ lastEvt' = Event("message_start", <<>>, <<>>, FALSE)
  /\ UNCHANGED <<params, runVars, polVars, rotVars, auxVars>>

MessageStart(m) == MessageStartUpTo(m, MaxMessages)

Streaming == stream.phase = "streaming" /\ stream.block <= Len(stream.message)

Remaining ==
  SubSeq(stream.message[stream.block], stream.offset + 1,
         Len(stream.message[stream.block]))

SliceSizes == IF Streaming THEN 1..Len(Remaining) ELSE {}

EndedBlocks == 1..(stream.block - 1)

\* text_delta: the next n tokens of the current text block.
TextDelta(n) ==
  /\ Streaming
  /\ n \in SliceSizes
  /\ OnAssistantText("text_delta", SubSeq(Remaining, 1, n), <<>>)
  /\ stream' = [stream EXCEPT !.offset = @ + n]
  /\ UNCHANGED <<params, runVars, polVars, rotVars, auxVars>>

\* text_end of the current text block, carrying the rest of the block as its
\* delta or, without a delta, the content of the block.
TextEnd(withDelta) ==
  /\ Streaming
  /\ withDelta => Remaining # <<>>
  /\ IF withDelta
     THEN OnAssistantText("text_end", Remaining, <<>>)
     ELSE OnAssistantText("text_end", <<>>, stream.message[stream.block])
  /\ stream' = [stream EXCEPT !.block = @ + 1, !.offset = 0]
  /\ UNCHANGED <<params, runVars, polVars, rotVars, auxVars>>

\* The blocks a text_end can repeat: during the message the blocks that have
\* ended, after message_end every block of the message (a provider may end
\* the message without a text_end and send the text_end late).
ReplayBlocks ==
  IF stream.phase = "ended" THEN 1..Len(stream.message) ELSE EndedBlocks

\* A text_end that repeats the content of a block that has ended already,
\* during the message or late, after its message_end.
TextEndReplay(b) ==
  /\ stream.phase \in {"streaming", "ended"}
  /\ stream.replays < MaxReplays
  /\ b \in ReplayBlocks
  /\ OnAssistantText("text_end", <<>>, stream.message[b])
  /\ stream' = [stream EXCEPT !.replays = @ + 1]
  /\ UNCHANGED <<params, runVars, polVars, rotVars, auxVars>>

\* Every token of the message has been sent.
AllSent ==
  \/ stream.block > Len(stream.message)
  \/ /\ stream.block = Len(stream.message)
     /\ stream.offset = Len(stream.message[stream.block])

NothingSent == stream.block = 1 /\ stream.offset = 0

\* message_end of an assistant message, after the whole message was streamed
\* or, for a provider that does not stream, after message_start.
MessageEnd ==
  LET text == FinalAnswerText(params, stream.message)
      addedDuringMessage == Len(sub.assistantTexts) > sub.assistantTextBaseline
      texts == IF /\ ~addedDuringMessage
                  /\ text # <<>>
                  /\ \/ sub.assistantTexts = <<>>
                     \/ sub.assistantTexts[Len(sub.assistantTexts)] # text
               THEN Append(sub.assistantTexts, text)
               ELSE sub.assistantTexts
      candidate == /\ \/ params.blockReplyBreak = "message_end"
                      \/ Len(sub.blockBuffer) > 0
                   /\ text # <<>>
                   /\ params.onBlockReply
                   /\ text # sub.lastBlockReplyText
      duplicate == isMessagingToolDuplicate(text, sub.messagingToolSentTexts)
  IN  /\ stream.phase = "streaming"
      /\ AllSent \/ NothingSent
      /\ sub' = [sub EXCEPT !.assistantTexts = texts,
                            !.assistantTextBaseline = Len(texts),
                            !.lastBlockReplyText =
                               IF candidate /\ ~duplicate THEN text ELSE @,
                            !.deltaBuffer = <<>>,
                            !.blockBuffer = <<>>,
                            !.blockThinkingActive = FALSE,
                            !.lastStreamedAssistant = Undefined]
      /\ observed' = [observed EXCEPT
                        !.blockReplies =
                           IF candidate /\ ~duplicate THEN Append(@, text) ELSE @,
                        !.skipLog =
                           IF candidate /\ duplicate THEN @ \cup {text} ELSE @]
      /\ stream' = [stream EXCEPT !.phase = "ended"]
      /\ lastEvt' = Event("message_end", <<>>, <<>>, candidate /\ ~duplicate)
      /\ UNCHANGED <<params, runVars, polVars, rotVars, auxVars>>

\* tool_execution_start of a messaging tool called to send text; tools run
\* between the assistant messages.
ToolStart(text) ==
  /\ stream.phase # "streaming"
  /\ stream.toolCalls < MaxToolCalls
  /\ stream' = [stream EXCEPT !.toolCalls = @ + 1]
  /\ sub' = [sub EXCEPT !.pendingMessagingTexts = Append(@, text)]
  /\ lastEvt' = Event("tool_execution_start", <<>>, <<>>, FALSE)
  /\ UNCHANGED <<params, observed, runVars, polVars, rotVars, auxVars>>

\* tool_execution_end of the pending call i.
ToolEnd(i, isError) ==
  /\ stream.phase # "streaming"
  /\ i \in 1..Len(sub.pendingMessagingTexts)
  /\ LET pendingText == sub.pendingMessagingTexts[i]
     IN  /\ sub' = [sub EXCEPT
                      !.pendingMessagingTexts =
                         SubSeq(@, 1, i - 1) \o SubSeq(@, i + 1, Len(@)),
                      !.messagingToolSentTexts =
                         CommitMessagingText(@, pendingText, isError)]
         /\ observed' = [observed EXCEPT
                           !.okTexts = IF isError THEN @ ELSE @ \cup {pendingText},
                           !.failedTexts = IF isError THEN @ \cup {pendingText} ELSE @]
  /\ lastEvt' = Event("tool_execution_end", <<>>, <<>>, FALSE)
  /\ UNCHANGED <<params, stream, runVars, polVars, rotVars, auxVars>>

\* A reset that leaves the answer texts of the turn in place.
ResetKeepsAssistantTexts(s) ==
  [s EXCEPT !.deltaBuffer = <<>>, !.blockBuffer = <<>>,
            !.blockThinkingActive = FALSE,
            !.lastStreamedAssistant = Undefined,
            !.lastBlockReplyText = Undefined]

resetForCompactionRetry(s) ==
  [s EXCEPT !.assistantTexts = <<>>,
            !.messagingToolSentTexts = <<>>,
            !.pendingMessagingTexts = <<>>,
            !.deltaBuffer = <<>>, !.blockBuffer = <<>>,
            !.blockThinkingActive = FALSE,
            !.lastStreamedAssistant = Undefined,
            !.lastBlockReplyText = Undefined,
            !.assistantTextBaseline = 0]

ensureCompactionPromise(s) == [s EXCEPT !.compactionRetryPromise = TRUE]

noteCompactionRetry(s) ==
  ensureCompactionPromise([s EXCEPT !.pendingCompactionRetry = @ + 1])

\* compactionRetryResolve?.(); compactionRetryResolve = undefined;
\* compactionRetryPromise = null. The promise resolves, and with it the
\* gates that are the promise or follow it.
ResolveCompactionPromise(s) ==
  [s EXCEPT !.compactionRetryPromise = FALSE,
            !.gates = [g \in DOMAIN s.gates |->
                         IF s.compactionRetryPromise /\ s.gates[g] \in {"shared", "chained"}
                         THEN "resolved" ELSE s.gates[g]]]

\* A resolveCompactionRetry that does not look at the compaction in flight.
ResolveRetryIgnoresInFlight(s) ==
  IF s.pendingCompactionRetry <= 0 THEN s
  ELSE LET s1 == [s EXCEPT !.pendingCompactionRetry = @ - 1]
       IN  IF s1.pendingCompactionRetry = 0
           THEN ResolveCompactionPromise(s1) ELSE s1

resolveCompactionRetry(s) ==
  IF s.pendingCompactionRetry <= 0 THEN s
  ELSE LET s1 == [s EXCEPT !.pendingCompactionRetry = @ - 1]
       IN  IF s1.pendingCompactionRetry = 0 /\ ~s1.compactionInFlight
           THEN ResolveCompactionPromise(s1) ELSE s1

maybeResolveCompactionWait(s) ==
  IF s.pendingCompactionRetry = 0 /\ ~s.compactionInFlight
  THEN ResolveCompactionPromise(s) ELSE s

\* An agent_end that counts down whether or not a retry is pending.
AgentEndCountsDownAlways(s) ==
  LET s1 == [s EXCEPT !.pendingCompactionRetry = @ - 1]
  IN  IF s1.pendingCompactionRetry = 0 /\ ~s1.compactionInFlight
      THEN ResolveCompactionPromise(s1) ELSE s1

\* The end of the agent_end handler.
resolveAtAgentEnd(s) ==
  IF s.pendingCompactionRetry > 0
  THEN resolveCompactionRetry(s)
  ELSE maybeResolveCompactionWait(s)

\* auto_compaction_start, as the subscription handles it.
AutoCompactionStart ==
  /\ ~sub.compactionInFlight
  /\ sub' = ensureCompactionPromise([sub EXCEPT !.compactionInFlight = TRUE])
  /\ lastEvt' = Event("auto_compaction_start", <<>>, <<>>, FALSE)
  /\ UNCHANGED <<params, stream, observed, runVars, polVars, rotVars, auxVars>>

\* auto_compaction_end, as the subscription handles it. With willRetry the
\* message in progress is abandoned and the observations start again: what
\* the callbacks receive from here on is produced for the retry.
AutoCompactionEnd(willRetry) ==
  /\ sub.compactionInFlight
  /\ willRetry => sub.pendingCompactionRetry < MaxPendingRetry
  /\ sub' = LET s1 == [sub EXCEPT !.compactionInFlight = FALSE]
            IN  IF willRetry
                THEN resetForCompactionRetry(noteCompactionRetry(s1))
                ELSE maybeResolveCompactionWait(s1)
  /\ stream' = IF willRetry
               THEN [stream EXCEPT !.phase = "idle", !.message = <<>>,
                                   !.block = 1, !.offset = 0,
                                   !.retried = TRUE, !.retryAt = stream.messages]
               ELSE stream
  /\ observed' = IF willRetry
                 THEN [observed EXCEPT !.blockReplies = <<>>,
                                       !.partialReplies = {},
                                       !.skipLog = {},
                                       !.msgStartLen = 0]
                 ELSE observed
  /\ lastEvt' = Event("auto_compaction_end", <<>>, <<>>, FALSE)
  /\ UNCHANGED <<params, runVars, polVars, rotVars, auxVars>>

\* agent_end, as the subscription handles it: the text still in the block
\* buffer is delivered, then a pending compaction retry is counted down or
\* the compaction wait is resolved.
OnAgentEnd ==
  LET flush == params.onBlockReply /\ Len(sub.blockBuffer) > 0
      r == IF flush THEN emitBlockChunk(sub, observed, sub.blockBuffer)
           ELSE [sub |-> sub, obs |-> observed]
      s1 == [r.sub EXCEPT !.blockBuffer = IF flush THEN <<>> ELSE @,
                          !.blockThinkingActive = FALSE]
  IN  /\ stream.phase # "streaming"
      /\ sub' = resolveAtAgentEnd(s1)
      /\ observed' = r.obs
      /\ lastEvt' = Event("agent_end", <<>>, <<>>,
                           r.obs.blockReplies # observed.blockReplies)
      /\ UNCHANGED <<params, stream, runVars, polVars, rotVars, auxVars>>

\* waitForCompactionRetry(): while the subscription compacts the call returns
\* compactionRetryPromise; otherwise a promise of its own and a microtask.
WaitForCompactionRetry(g) ==
  /\ sub.gates[g] = "unused"
  /\ sub' = IF sub.compactionInFlight \/ sub.pendingCompactionRetry > 0
            THEN [ensureCompactionPromise(sub) EXCEPT !.gates[g] = "shared"]
            ELSE [sub EXCEPT !.gates[g] = "microtask"]
  /\ UNCHANGED <<params, stream, observed, lastEvt, runVars, polVars, rotVars,
                 auxVars>>

\* The microtask of waitForCompactionRetry looks again.
GateMicrotask(g) ==
  /\ sub.gates[g] = "microtask"
  /\ sub' = IF sub.compactionInFlight \/ sub.pendingCompactionRetry > 0
            THEN [ensureCompactionPromise(sub) EXCEPT !.gates[g] = "chained"]
            ELSE [sub EXCEPT !.gates[g] = "resolved"]
  /\ UNCHANGED <<params, stream, observed, lastEvt, runVars, polVars, rotVars,
                 auxVars>>

(***************************************************************************)
(* syncExternalCliCredentials (agents/auth-profiles/external-cli-sync):    *)
(* the credentials of the Claude CLI and of the Codex CLI are copied into  *)
(* the profiles of an auth profile store. A credential is the record of    *)
(* its type, provider and expiry; secret stands for the fields the         *)
(* shallowEqual functions compare besides these (access, refresh, token,   *)
(* email, ...).                                                            *)
(***************************************************************************)
CLAUDE_CLI_PROFILE_ID == "anthropic:claude-cli"
CODEX_CLI_PROFILE_ID == "openai-codex:codex-cli"
\* A profile the user stored with an API key for the provider of the Claude CLI.
ApiKeyProfileId == "anthropic:default"

ProfileIds == {CLAUDE_CLI_PROFILE_ID, CODEX_CLI_PROFILE_ID, ApiKeyProfileId}

Times == 0..MaxTime

\* expires of a credential that has no expiry (undefined).
NoExpires == -1

EXTERNAL_CLI_NEAR_EXPIRY_MS == 1

\* No credential: an absent profile, a reader that returns null.
NoCred == [type |-> "none", provider |-> "none", expires |-> NoExpires,
           secret |-> "none"]

ApiKeyCred == [type |-> "api_key", provider |-> "anthropic",
               expires |-> NoExpires, secret |-> "sk-store"]

\* readClaudeCliCredentialsCached: null, an oauth credential (the CLI holds
\* a refresh token) or a token credential, of provider anthropic.
ClaudeCliReads ==
  {NoCred}
    \cup [type : {"oauth"}, provider : {"anthropic"}, expires : Times,
          secret : {"cli"}]
    \cup [type : {"token"}, provider : {"anthropic"},
          expires : Times \cup {NoExpires}, secret : {"cli"}]

\* readCodexCliCredentialsCached: null or an oauth credential of openai-codex.
CodexCliReads ==
  {NoCred}
    \cup [type : {"oauth"}, provider : {"openai-codex"}, expires : Times,
          secret : {"cli"}]

\* What auth-profiles.json holds under the two CLI profile ids when the
\* store is loaded: nothing, or a credential stored earlier.
StoredClaude ==
  {NoCred}
    \cup [type : {"oauth"}, provider : {"anthropic"}, expires : Times,
          secret : {"old"}]
    \cup [type : {"token"}, provider : {"anthropic"},
          expires : Times \cup {NoExpires}, secret : {"old"}]
    \cup {[type |-> "oauth", provider |-> "openai-codex", expires |-> MaxTime,
           secret |-> "old"]}

StoredCodex ==
  {NoCred,
   [type |-> "oauth", provider |-> "openai-codex", expires |-> 0, secret |-> "old"],
   [type |-> "oauth", provider |-> "openai-codex", expires |-> MaxTime,
    secret |-> "old"]}

\* n: the calls of syncExternalCliCredentials so far; existing: the Claude
\* CLI profile the last call found in the store; claude: what the Claude CLI
\* reader returned to the last call (NoCred when it was not called);
\* mutated: the value the last call returned.
NoSync == [n |-> 0, existing |-> NoCred, claude |-> NoCred, mutated |-> FALSE]

InitAux ==
  /\ profiles = [id \in ProfileIds |-> NoCred]
  /\ sync = NoSync
  /\ now = 0
  /\ hist = [pc |-> "none", messages |-> <<>>, modelApi |-> "none",
             filtered |-> <<>>]
  /\ upd = [pc |-> "none", restart |-> FALSE, json |-> FALSE,
           timeout |-> "absent", exitReturns |-> FALSE,
           status |-> "none", reason |-> "none",
           exits |-> <<>>, restarts |-> 0, log |-> {}]

InitStore ==
  /\ \E c \in StoredClaude, x \in StoredCodex :
       profiles = [id \in ProfileIds |->
                     IF id = CLAUDE_CLI_PROFILE_ID THEN c
                     ELSE IF id = CODEX_CLI_PROFILE_ID THEN x
                     ELSE ApiKeyCred]
  /\ sync = NoSync
  /\ now = 0
  /\ hist = [pc |-> "none", messages |-> <<>>, modelApi |-> "none",
             filtered |-> <<>>]
  /\ upd = [pc |-> "none", restart |-> FALSE, json |-> FALSE,
           timeout |-> "absent", exitReturns |-> FALSE,
           status |-> "none", reason |-> "none",
           exits |-> <<>>, restarts |-> 0, log |-> {}]

shallowEqualOAuthCredentials(a, b) ==
  /\ a # NoCred
  /\ a.type = "oauth"
  /\ a.provider = b.provider
  /\ a.secret = b.secret
  /\ a.expires = b.expires

shallowEqualTokenCredentials(a, b) ==
  /\ a # NoCred
  /\ a.type = "token"
  /\ a.provider = b.provider
  /\ a.secret = b.secret
  /\ a.expires = b.expires

isExternalProfileFresh(cred, t) ==
  IF cred = NoCred THEN FALSE
  ELSE IF cred.type # "oauth" /\ cred.type # "token" THEN FALSE
  ELSE IF cred.provider # "anthropic" /\ cred.provider # "openai-codex" THEN FALSE
  ELSE IF cred.expires = NoExpires THEN TRUE
  ELSE cred.expires > t + EXTERNAL_CLI_NEAR_EXPIRY_MS

\* expires ?? 0
ExpiresOrZero(cred) == IF cred.expires = NoExpires THEN 0 ELSE cred.expires

\* const shouldSyncClaude = ...: whether the Claude CLI reader is called.
shouldSyncClaude(p, t) ==
  LET existingClaude == p[CLAUDE_CLI_PROFILE_ID]
  IN  \/ existingClaude = NoCred
      \/ existingClaude.provider # "anthropic"
      \/ existingClaude.type = "token"
      \/ ~isExternalProfileFresh(existingClaude, t)

shouldSyncCodex(p, t) ==
  LET existingCodex == p[CODEX_CLI_PROFILE_ID]
  IN  \/ existingCodex = NoCred
      \/ existingCodex.provider # "openai-codex"
      \/ ~isExternalProfileFresh(existingCodex, t)

\* A sync of the Claude CLI that compares expiry only.
SyncClaudeByExpiry(p, claudeCreds, t) ==
  LET existing == p[CLAUDE_CLI_PROFILE_ID]
  IN  IF claudeCreds # NoCred
         /\ (existing = NoCred \/ ExpiresOrZero(existing) <= t
               \/ ExpiresOrZero(claudeCreds) > ExpiresOrZero(existing))
      THEN [p EXCEPT ![CLAUDE_CLI_PROFILE_ID] = claudeCreds]
      ELSE p

\* A sync of the Claude CLI that also stores the credential as the
\* provider's default profile.
SyncClaudeAsDefault(p, claudeCreds, t) ==
  IF claudeCreds # NoCred
  THEN [p EXCEPT ![CLAUDE_CLI_PROFILE_ID] = claudeCreds,
                 ![ApiKeyProfileId] = claudeCreds]
  ELSE p

\* if (claudeCreds) { ... }: the Claude CLI part of the sync, claudeCreds
\* being what the reader returned.
SyncClaude(p, claudeCreds, t) ==
  LET existing == p[CLAUDE_CLI_PROFILE_ID]
      claudeCredsExpires == ExpiresOrZero(claudeCreds)
      existingOAuth == IF existing.type = "oauth" THEN existing ELSE NoCred
      existingToken == IF existing.type = "token" THEN existing ELSE NoCred
      byExpiry ==
        IF claudeCreds.type = "oauth"
        THEN \/ existingOAuth = NoCred
             \/ existingOAuth.provider # "anthropic"
             \/ existingOAuth.expires <= t
             \/ (claudeCredsExpires > t /\ claudeCredsExpires > existingOAuth.expires)
        ELSE \/ existingToken = NoCred
             \/ existingToken.provider # "anthropic"
             \/ ExpiresOrZero(existingToken) <= t
             \/ (claudeCredsExpires > t
                   /\ claudeCredsExpires > ExpiresOrZero(existingToken))
      equalCreds ==
        IF claudeCreds.type = "oauth"
        THEN shallowEqualOAuthCredentials(existingOAuth, claudeCreds)
        ELSE shallowEqualTokenCredentials(existingToken, claudeCreds)
      upgrade == /\ existing # NoCred
                 /\ existing.type # claudeCreds.type
                 /\ claudeCreds.type = "oauth"
      downgrade == existing.type = "oauth" /\ claudeCreds.type = "token"
      shouldUpdate == (byExpiry \/ upgrade) /\ ~downgrade
      isEqual == equalCreds /\ ~upgrade
  IN  IF claudeCreds # NoCred /\ shouldUpdate /\ ~isEqual
      THEN [p EXCEPT ![CLAUDE_CLI_PROFILE_ID] = claudeCreds]
      ELSE p

\* if (codexCreds) { ... }
SyncCodex(p, codexCreds, t) ==
  LET existing == p[CODEX_CLI_PROFILE_ID]
      existingOAuth == IF existing.type = "oauth" THEN existing ELSE NoCred
      shouldUpdate ==
        \/ existingOAuth = NoCred
        \/ existingOAuth.provider # "openai-codex"
        \/ existingOAuth.expires <= t
        \/ codexCreds.expires > existingOAuth.expires
  IN  IF /\ codexCreds # NoCred
         /\ shouldUpdate
         /\ ~shallowEqualOAuthCredentials(existingOAuth, codexCreds)
      THEN [p EXCEPT ![CODEX_CLI_PROFILE_ID] = codexCreds]
      ELSE p

\* syncExternalCliCredentials(store): claudeRead and codexRead are what the
\* cached readers return when they are called.
syncExternalCliCredentials(p, claudeRead, codexRead, t) ==
  LET claudeCreds == IF shouldSyncClaude(p, t) THEN claudeRead ELSE NoCred
      p1 == SyncClaude(p, claudeCreds, t)
      codexCreds == IF shouldSyncCodex(p1, t) THEN codexRead ELSE NoCred
      p2 == SyncCodex(p1, codexCreds, t)
  IN  [profiles |-> p2, claude |-> claudeCreds, mutated |-> p2 # p]

\* ensureAuthProfileStore loads the store and syncs it with the CLIs.
SyncExternalCli(claudeRead, codexRead) ==
  /\ sync.n < MaxSyncs
  /\ LET r == syncExternalCliCredentials(profiles, claudeRead, codexRead, now)
     IN  /\ profiles' = r.profiles
         /\ sync' = [n |-> sync.n + 1, existing |-> profiles[CLAUDE_CLI_PROFILE_ID],
                     claude |-> r.claude, mutated |-> r.mutated]
  /\ UNCHANGED <<now, hist, upd>>
  /\ UNCHANGED <<runVars, subVars, polVars, rotVars>>

\* Date.now() advances between two loads of the store.
ClockAdvances ==
  /\ now < MaxTime
  /\ now' = now + 1
  /\ UNCHANGED <<profiles, sync, hist, upd>>
  /\ UNCHANGED <<runVars, subVars, polVars, rotVars>>

(***************************************************************************)
(* sanitizeSessionHistory (agents/pi-embedded-runner/google.ts): the stage *)
(* that filters reasoning-only assistant messages. A message is its role   *)
(* and its content, a string (isArray FALSE) or a sequence of blocks; a    *)
(* block is its type and, for a text block, its text as a sequence of      *)
(* characters.                                                             *)
(***************************************************************************)
ModelApis == {"openai-responses", "openai-codex-responses", "none"}

ToolCallTypes == {"toolCall", "toolUse", "functionCall"}

HistoryBlocks ==
  {[type |-> "thinking", text |-> <<>>],
   [type |-> "toolCall", text |-> <<>>],
   [type |-> "text", text |-> <<>>],
   [type |-> "text", text |-> <<" ">>],
   [type |-> "text", text |-> <<"hi">>]}

\* The contents of an assistant message: no block, one block, two blocks.
HistoryContents ==
  {<<>>} \cup {<<b>> : b \in HistoryBlocks}
         \cup {<<b, c>> : b \in HistoryBlocks, c \in HistoryBlocks}

RECURSIVE SeqsUpTo(_, _)
SeqsUpTo(S, n) ==
  IF n = 0 THEN {<<>>}
  ELSE LET shorter == SeqsUpTo(S, n - 1)
       IN  shorter \cup {Append(s, x) : s \in shorter, x \in S}

HistoryMessages ==
  {[role |-> "user", isArray |-> FALSE, content |-> <<>>],
   [role |-> "assistant", isArray |-> FALSE, content |-> <<>>]}
    \cup [role : {"assistant"}, isArray : {TRUE},
          content : HistoryContents]

NoHistory == [pc |-> "none", messages |-> <<>>, modelApi |-> "none",
              filtered |-> <<>>]

\* The loop over the blocks of an assistant message, from block i on.
RECURSIVE ScanBlocks(_, _, _)
ScanBlocks(content, i, hasThinking) ==
  IF i > Len(content)
  THEN [hasThinking |-> hasThinking, hasPairedContent |-> FALSE]
  ELSE LET block == content[i]
       IN  IF block.type = "thinking" THEN ScanBlocks(content, i + 1, TRUE)
           ELSE IF block.type \in ToolCallTypes
           THEN [hasThinking |-> hasThinking, hasPairedContent |-> TRUE]
           ELSE IF block.type = "text" /\ Len(Trim(block.text)) > 0
           THEN [hasThinking |-> hasThinking, hasPairedContent |-> TRUE]
           ELSE ScanBlocks(content, i + 1, hasThinking)

\* The predicate of messages.filter.
KeepsMessage(msg) ==
  IF msg.role # "assistant" THEN TRUE
  ELSE IF ~msg.isArray THEN TRUE
  ELSE IF Len(msg.content) = 0 THEN TRUE
  ELSE LET scan == ScanBlocks(msg.content, 1, FALSE)
       IN  ~(scan.hasThinking /\ ~scan.hasPairedContent)

\* A filter that does not look at the model API.
FilterForAnyApi(messages, modelApi) == SelectSeq(messages, KeepsMessage)

filterOpenAIReasoningOnlyMessages(messages, modelApi) ==
  IF modelApi # "openai-responses" THEN messages
  ELSE SelectSeq(messages, KeepsMessage)

\* const openaiReasoningFiltered = filterOpenAIReasoningOnlyMessages(...)
FilterReasoningOnly(modelApi) ==
  /\ hist.pc = "loaded"
  /\ hist' = [hist EXCEPT !.pc = "filtered",
                          !.modelApi = modelApi,
                          !.filtered = filterOpenAIReasoningOnlyMessages(
                                         hist.messages, modelApi)]
  /\ UNCHANGED <<profiles, sync, now, upd>>
  /\ UNCHANGED <<runVars, subVars, polVars, rotVars>>

\* Any history of a session reaches the stage.
InitHistory ==
  /\ \E messages \in SeqsUpTo(HistoryMessages, MaxHistory) :
       hist = [NoHistory EXCEPT !.pc = "loaded", !.messages = messages]
  /\ profiles = [id \in ProfileIds |-> NoCred]
  /\ sync = NoSync
  /\ now = 0
  /\ upd = [pc |-> "none", restart |-> FALSE, json |-> FALSE,
           timeout |-> "absent", exitReturns |-> FALSE,
           status |-> "none", reason |-> "none",
           exits |-> <<>>, restarts |-> 0, log |-> {}]

(***************************************************************************)
(* updateCommand (cli/update-cli) with runDaemonRestart (cli/daemon-cli).  *)
(* exits: the codes passed to defaultRuntime.exit, in order; restarts: the *)
(* calls of runDaemonRestart; log: the closing messages printed.           *)
(* exitReturns: defaultRuntime.exit returns to its caller (a runtime whose *)
(* exit is replaced, as in the tests) instead of ending the process.       *)
(***************************************************************************)
UpdateStatuses == {"ok", "error", "skipped"}

\* result.reason
UpdateReasons == {"none", "dirty", "not-git-install", "rebase-failed"}

\* opts.timeout: absent, a positive integer, or anything else.
TimeoutOptions == {"absent", "valid", "invalid"}

\* How runDaemonRestart ends: the service check throws, the service is not
\* loaded, the restart succeeds, the restart throws, or the function itself
\* throws (resolveGatewayService).
RestartOutcomes == {"checkFailed", "notLoaded", "restarted", "restartFailed", "throws"}

NoUpdate == [pc |-> "none", restart |-> FALSE, json |-> FALSE,
             timeout |-> "absent", exitReturns |-> FALSE,
             status |-> "none", reason |-> "none",
             exits |-> <<>>, restarts |-> 0, log |-> {}]

\* defaultRuntime.exit(code)
Exit(u, code) == [u EXCEPT !.exits = Append(@, code)]

Log(u, line) == [u EXCEPT !.log = @ \cup {line}]

\* defaultRuntime.exit(code); return
ExitAndReturn(u, code) ==
  [Exit(u, code) EXCEPT !.pc = IF u.exitReturns THEN "returned" ELSE "exited"]

\* An updateCommand that goes on to the restart after exit returned.
AfterUpdateFallsThrough(u, status, reason) ==
  LET r == [u EXCEPT !.status = status, !.reason = reason]
      r1 == IF status = "error" THEN Exit(r, 1)
            ELSE IF status = "skipped" THEN Exit(r, 0)
            ELSE r
  IN  IF status # "ok" /\ ~u.exitReturns THEN [r1 EXCEPT !.pc = "exited"]
      ELSE IF u.restart
      THEN [r1 EXCEPT !.pc = "restarting", !.restarts = @ + 1]
      ELSE [r1 EXCEPT !.pc = "returned"]

\* updateCommand from printResult on, result being what runGatewayUpdate
\* resolved with.
AfterUpdate(u, status, reason) ==
  LET r == [u EXCEPT !.status = status, !.reason = reason]
  IN  IF status = "error"
      THEN ExitAndReturn(r, 1)
      ELSE IF status = "skipped"
      THEN LET logged == IF reason \in {"dirty", "not-git-install"}
                         THEN Log(r, "Skipped") ELSE r
           IN  ExitAndReturn(logged, 0)
      ELSE IF u.restart
      THEN [r EXCEPT !.pc = "restarting", !.restarts = @ + 1]
      ELSE [(IF ~u.json THEN Log(r, "Tip") ELSE r) EXCEPT !.pc = "returned"]

\* A call of updateCommand with any options.
InitUpdate ==
  \E restart \in BOOLEAN, json \in BOOLEAN, timeout \in TimeoutOptions,
     exitReturns \in BOOLEAN :
    upd = [NoUpdate EXCEPT !.pc = "called", !.restart = restart, !.json = json,
                           !.timeout = timeout, !.exitReturns = exitReturns]

\* The timeout option is parsed: exit(1) when it is no positive integer.
ParseTimeout ==
  /\ upd.pc = "called"
  /\ upd' = IF upd.timeout = "invalid"
            THEN ExitAndReturn(upd, 1)
            ELSE [upd EXCEPT !.pc = "updating"]
  /\ UNCHANGED <<profiles, sync, now, hist>>
  /\ UNCHANGED <<runVars, subVars, polVars, rotVars>>

\* runGatewayUpdate resolves with a result.
GatewayUpdateEnds(status, reason) ==
  /\ upd.pc = "updating"
  /\ upd' = AfterUpdate(upd, status, reason)
  /\ UNCHANGED <<profiles, sync, now, hist>>
  /\ UNCHANGED <<runVars, subVars, polVars, rotVars>>

\* runGatewayUpdate rejects: updateCommand rejects and the action registered
\* by registerUpdateCli exits with code 1.
GatewayUpdateThrows ==
  /\ upd.pc = "updating"
  /\ upd' = [Exit(upd, 1) EXCEPT !.pc = "rejected", !.status = "thrown"]
  /\ UNCHANGED <<profiles, sync, now, hist>>
  /\ UNCHANGED <<runVars, subVars, polVars, rotVars>>

\* runDaemonRestart ends; updateCommand prints the outcome and returns. An
\* exit that ends the process ends it inside runDaemonRestart.
DaemonRestartEnds(outcome) ==
  /\ upd.pc = "restarting"
  /\ LET exited == IF outcome \in {"checkFailed", "restartFailed"}
                   THEN Exit(upd, 1) ELSE upd
         ended == outcome \in {"checkFailed", "restartFailed"} /\ ~upd.exitReturns
         logged == IF ended \/ upd.json THEN exited
                   ELSE IF outcome = "restarted" THEN Log(exited, "Daemon restarted")
                   ELSE IF outcome = "throws" THEN Log(exited, "Daemon restart failed")
                   ELSE exited
     IN  upd' = [logged EXCEPT !.pc = IF ended THEN "exited" ELSE "returned"]
  /\ UNCHANGED <<profiles, sync, now, hist>>
  /\ UNCHANGED <<runVars, subVars, polVars, rotVars>>

Lifecycle(T) ==
  \/ \E t \in T, key \in SessionKeys, lane \in LaneParams : Submit(t, key, lane)
  \/ \E t \in T : RegisterAttempt(t)
  \/ \E t \in T : SetupThrows(t)
  \/ \E t \in T : AttemptEnds(t)

Aborts(T) ==
  \/ \E t \in T : Timeout(t)
  \/ \E s \in SessionIds : AbortRun(s)

\* Turns submitted under any key and lane; their sessions never compact.
NextRun == Lifecycle(Turns) \/ Aborts(Turns)

\* No turn submitted, no waiter, and an idle subscription.
Init == InitRun /\ InitSub /\ InitPol /\ InitRot /\ InitAux

SpecRun == Init /\ [][NextRun]_vars

\* Waiters on the registry while turns come and go.
NextWait ==
  \/ Lifecycle(1..WaitTurns)
  \/ \E w \in Waiters, s \in SessionIds : WaitForEnd(w, s)
  \/ \E w \in Waiters : WaiterTimeout(w)

SpecWait == Init /\ [][NextWait]_vars

\* Turns whose callers choose the session id apart from the session key,
\* and waiters on the registry.
NextShared ==
  \/ \E t \in Turns, key \in SessionKeys, sessionId \in SessionIds,
        lane \in LaneParams : SubmitShared(t, key, sessionId, lane)
  \/ \E t \in Turns : RegisterAttempt(t)
  \/ \E t \in Turns : SetupThrows(t)
  \/ \E t \in Turns : AttemptEnds(t)
  \/ \E w \in Waiters, s \in SessionIds : WaitForEnd(w, s)
  \/ \E w \in Waiters : WaiterTimeout(w)

SpecShared == Init /\ [][NextShared]_vars

\* The lane names callers pass: none, the name of a lane of their own, and
\* a name that is also the name of a session's lane.
LaneNames == LaneParams \cup {resolveSessionLane("a")}

\* Turns submitted under any key and any lane name, every body of which
\* terminates: the setup of a body that has started goes on to its first
\* attempt or throws, and every attempt ends.
NextLanes ==
  \/ \E t \in Turns, key \in SessionKeys, lane \in LaneNames : Submit(t, key, lane)
  \/ \E t \in Turns : RegisterAttempt(t)
  \/ \E t \in Turns : SetupThrows(t)
  \/ \E t \in Turns : AttemptEnds(t)

SpecLanes ==
  /\ Init
  /\ [][NextLanes]_vars
  /\ \A t \in Turns : WF_vars(RegisterAttempt(t) \/ SetupThrows(t))
  /\ \A t \in Turns : WF_vars(AttemptEnds(t))

\* Steering into turns whose sessions stream and compact.
NextSteer ==
  \/ Lifecycle(1..SteerTurns)
  \/ \E t \in 1..SteerTurns : SessionStreaming(t)
  \/ \E t \in 1..SteerTurns : CompactionStart(t)
  \/ \E t \in 1..SteerTurns, willRetry \in BOOLEAN : CompactionEnd(t, willRetry)
  \/ \E t \in 1..SteerTurns : AgentEnd(t)
  \/ \E s \in SessionIds, text \in SteerTexts : QueueMessage(s, text)

SpecSteer == Init /\ [][NextSteer]_vars

\* One subscription consuming the event stream of one provider, under every
\* setting of blockReplyBreak, enforceFinalTag and onBlockReply. A text_end
\* is repeated only for a block whose text_end has arrived.
NextSub ==
  \/ \E m \in ProviderMessages : MessageStart(m)
  \/ \E n \in SliceSizes : TextDelta(n)
  \/ \E withDelta \in BOOLEAN : TextEnd(withDelta)
  \/ \E b \in EndedBlocks : TextEndReplay(b)
  \/ MessageEnd
  \/ \E text \in ToolTexts : ToolStart(text)
  \/ \E i \in 1..MaxToolCalls, isError \in BOOLEAN : ToolEnd(i, isError)

InitAnyParams ==
  InitRun /\ InitPol /\ InitRot /\ InitAux /\ \E p \in SubParams : InitSubWith(p)

SpecSub == InitAnyParams /\ [][NextSub]_vars

\* One subscription consuming the messages of a turn that the provider streams
\* block by block, with no tool call and no repeated text_end.
NextStream ==
  \/ \E m \in ProviderMessages : MessageStartUpTo(m, MaxStreamed)
  \/ \E n \in SliceSizes : TextDelta(n)
  \/ \E withDelta \in BOOLEAN : TextEnd(withDelta)
  \/ MessageEnd

SpecStream == InitAnyParams /\ [][NextStream]_vars

\* One subscription consuming one message of a provider that may end the
\* message without a text_end and send the text_end late.
NextLate ==
  \/ \E m \in ProviderMessages : MessageStart(m)
  \/ \E n \in SliceSizes : TextDelta(n)
  \/ \E withDelta \in BOOLEAN : TextEnd(withDelta)
  \/ MessageEnd
  \/ \E b \in ReplayBlocks : TextEndReplay(b)

SpecLate == InitAnyParams /\ [][NextLate]_vars

\* One subscription consuming the messages of a turn whose session compacts
\* and retries.
NextCompact ==
  \/ \E m \in ProviderMessages : MessageStartUpTo(m, MaxStreamed)
  \/ \E n \in SliceSizes : TextDelta(n)
  \/ \E withDelta \in BOOLEAN : TextEnd(withDelta)
  \/ MessageEnd
  \/ AutoCompactionStart
  \/ \E willRetry \in BOOLEAN : AutoCompactionEnd(willRetry)

SpecCompact == InitAnyParams /\ [][NextCompact]_vars

\* One subscription whose session compacts and retries while callers wait at
\* the compaction gate. A queued microtask runs eventually.
NextGate ==
  \/ AutoCompactionStart
  \/ \E willRetry \in BOOLEAN : AutoCompactionEnd(willRetry)
  \/ OnAgentEnd
  \/ \E g \in 1..MaxGates : WaitForCompactionRetry(g)
  \/ \E g \in 1..MaxGates : GateMicrotask(g)

SpecGate ==
  /\ InitAnyParams
  /\ [][NextGate]_vars
  /\ \A g \in 1..MaxGates : WF_vars(GateMicrotask(g))

\* Inbound messages handled by the policy while the turns it starts run.
NextPolicy ==
  \/ \E key \in SessionKeys, mode \in QueueModes : PolicySample(key, mode)
  \/ RunReplyAgent
  \/ \E key \in SessionKeys, count \in PolicyTurns : FollowupDrain(key, count)
  \/ \E t \in PolicyTurns :
       \/ RegisterAttempt(t)
       \/ SetupThrows(t)
       \/ AttemptEnds(t)
       \/ SessionStreaming(t)
       \/ CompactionStart(t)
       \/ \E willRetry \in BOOLEAN : CompactionEnd(t, willRetry)
       \/ AgentEnd(t)

InitPolicy ==
  /\ ACTIVE_EMBEDDED_RUNS = [s \in SessionIds |-> NoHandle]
  /\ EMBEDDED_RUN_WAITERS = [s \in SessionIds |-> {}]
  /\ waiter = [w \in Waiters |-> FreshWaiter]
  /\ laneQueue = [l \in Lanes |-> <<>>]
  /\ laneActive = [l \in Lanes |-> NoTurn]
  /\ turn = [t \in PolicyTurns |-> FreshTurn]
  /\ sess = [t \in PolicyTurns |-> FreshSession]
  /\ steered = [t \in PolicyTurns |-> <<>>]
  /\ queueLog = NoCall
  /\ submitOrder = <<>>
  /\ finishOrder = <<>>
  /\ inbound = NoInbound
  /\ followups = [k \in SessionKeys |-> <<>>]
  /\ turnMsg = [t \in PolicyTurns |-> {}]
  /\ InitSub
  /\ InitRot
  /\ InitAux

SpecPolicy == InitPolicy /\ [][NextPolicy]_vars

\* A store loaded with any stored CLI credentials and synced with the CLIs
\* as their credentials and the clock change.
NextSync ==
  \/ \E claudeRead \in ClaudeCliReads, codexRead \in CodexCliReads :
       SyncExternalCli(claudeRead, codexRead)
  \/ ClockAdvances

InitSync == InitRun /\ InitSub /\ InitPol /\ InitRot /\ InitStore

SpecSync == InitSync /\ [][NextSync]_vars

\* The reasoning-only filter applied to any history under any model API.
NextHistory == \E modelApi \in ModelApis : FilterReasoningOnly(modelApi)

InitFilter == InitRun /\ InitSub /\ InitPol /\ InitRot /\ InitHistory

SpecHistory == InitFilter /\ [][NextHistory]_vars

\* One call of updateCommand with any options, update result and restart
\* outcome.
NextUpdate ==
  \/ ParseTimeout
  \/ \E status \in UpdateStatuses, reason \in UpdateReasons :
       GatewayUpdateEnds(status, reason)
  \/ GatewayUpdateThrows
  \/ \E outcome \in RestartOutcomes : DaemonRestartEnds(outcome)

InitCommand ==
  /\ InitRun /\ InitSub /\ InitPol /\ InitRot
  /\ profiles = [id \in ProfileIds |-> NoCred]
  /\ sync = NoSync
  /\ now = 0
  /\ hist = NoHistory
  /\ InitUpdate

SpecUpdate == InitCommand /\ [][NextUpdate]_vars

\* The turns of one agent, one at a time, rotating among its auth profiles
\* while other turns put profiles in cooldown.
NextRotate ==
  \/ \E explicitProfileId \in Profiles \cup {NoProfile},
        fallbackConfigured \in BOOLEAN,
        unusable \in SUBSET Profiles :
        RotStart(explicitProfileId, fallbackConfigured, unusable)
  \/ RotTimeout
  \/ RotAbort
  \/ \E o \in AttemptOutcomes : RotAttemptEnds(o)
  \/ RotReset
  \/ \E p \in Profiles : OtherTurnFails(p)

SpecRotate == Init /\ [][NextRotate]_vars

\* The turns of an agent one after another, no turn of another lane
\* touching the store.
NextRotateAlone ==
  \/ \E explicitProfileId \in Profiles \cup {NoProfile},
        fallbackConfigured \in BOOLEAN,
        unusable \in SUBSET Profiles :
        RotStart(explicitProfileId, fallbackConfigured, unusable)
  \/ RotTimeout
  \/ RotAbort
  \/ \E o \in AttemptOutcomes : RotAttemptEnds(o)
  \/ RotReset

\* Every attempt ends: the provider call settles, or the abort timer of the
\* attempt cuts it short and the prompt rejects.
SpecRotateFair ==
  /\ Init
  /\ [][NextRotateAlone]_vars
  /\ WF_vars(\E o \in AttemptOutcomes : RotAttemptEnds(o))

(***************************************************************************)
(* Properties of the run registry and the lanes.                           *)
(***************************************************************************)
Submitted(t) == turn[t].pc # "idle"

\* The body of the turn is running: between the start of the global-lane task
\* and the settling of the turn's promise.
InBody(t) == turn[t].pc \in {"setup", "retry", "prompting"}

RunningAttempts(s) == {t \in Turns : turn[t].pc = "prompting" /\ SessionIdOf(t) = s}

C2_LaneFifo ==
  /\ \A t1, t2 \in Turns :
       (t1 < t2 /\ Submitted(t1) /\ Submitted(t2) /\ turn[t1].key = turn[t2].key
          /\ (InBody(t2) \/ turn[t2].pc = "done"))
       => turn[t1].pc = "done"
  /\ \A i, j \in 1..Len(finishOrder) :
       (i < j /\ turn[finishOrder[i]].key = turn[finishOrder[j]].key)
       => finishOrder[i] < finishOrder[j]
  /\ \A t \in Turns :
       /\ turn[t].bodyRuns <= 1
       /\ (InBody(t) \/ turn[t].pc = "done") => turn[t].bodyRuns = 1
       /\ turn[t].pc \in {"idle", "sessionQueued", "globalQueued"} => turn[t].bodyRuns = 0

\* Two turns of one key, given different global lanes, have both settled.
C2_Witness ==
  /\ Len(finishOrder) >= 2
  /\ \E t1, t2 \in Turns :
       /\ t1 < t2
       /\ turn[t1].pc = "done" /\ turn[t2].pc = "done"
       /\ turn[t1].key = turn[t2].key
       /\ turn[t1].lane # turn[t2].lane

\* C8: a call of queueMessage returns true exactly when a run is registered
\* for the session id, its session is streaming and it is not mid-compaction
\* (no compaction in flight, no compaction retry pending); the text is passed
\* to that run's session exactly when the call returns true and to no session
\* otherwise.
C8_QueueMessage ==
  [][queueLog' # queueLog =>
       LET handle == ACTIVE_EMBEDDED_RUNS[queueLog'.sid]
           live == /\ handle # NoHandle
                   /\ sess[handle[1]].streaming
                   /\ ~sess[handle[1]].compactionInFlight
                   /\ sess[handle[1]].pendingCompactionRetry = 0
       IN  /\ queueLog'.result = live
           /\ live => steered' = [steered EXCEPT ![handle[1]] =
                                    Append(@, queueLog'.text)]
           /\ ~live => steered' = steered]_vars

\* A text was steered into a streaming run.
C8_Witness ==
  /\ queueLog.result
  /\ \E t \in Turns : steered[t] # <<>> /\ turn[t].pc = "prompting"

Deregisters(s) ==
  ACTIVE_EMBEDDED_RUNS[s] # NoHandle /\ ACTIVE_EMBEDDED_RUNS'[s] = NoHandle

\* C9: a wait on a session id with no registered run resolves true at once;
\* otherwise the waiter is pending with its timer armed, it is resolved at
\* most once, to true only by the deregistration of the session's run and
\* to false only by its timer, and a deregistration resolves every pending
\* waiter of the session to true.
C9_WaitForEnd ==
  /\ [](\A w \in Waiters :
          /\ waiter[w].resolves <= 1
          /\ waiter[w].state \in {"true", "false"} => waiter[w].resolves = 1
          /\ waiter[w].state = "pending"
               => /\ waiter[w].timer
                  /\ w \in EMBEDDED_RUN_WAITERS[waiter[w].sid]
                  /\ ACTIVE_EMBEDDED_RUNS[waiter[w].sid] # NoHandle)
  /\ [][\A w \in Waiters :
          /\ (waiter[w].state = "unused" /\ waiter'[w].state # "unused")
               => waiter'[w].state =
                    (IF ACTIVE_EMBEDDED_RUNS[waiter'[w].sid] = NoHandle
                     THEN "true" ELSE "pending")
          /\ (waiter[w].state = "pending" /\ waiter'[w].state = "true")
               => Deregisters(waiter[w].sid)
          /\ (waiter[w].state = "pending" /\ waiter'[w].state = "false")
               => ~Deregisters(waiter[w].sid)
          /\ (waiter[w].state = "pending" /\ Deregisters(waiter[w].sid))
               => waiter'[w].state = "true"
          /\ waiter[w].state \in {"true", "false"} => waiter'[w] = waiter[w]]_vars

\* Two waiters of one session were pending together and are resolved true,
\* and no timer is left armed.
C9_Witness ==
  \E w1, w2 \in Waiters :
    /\ w1 # w2
    /\ waiter[w1].sid = waiter[w2].sid
    /\ waiter[w1].waited /\ waiter[w2].waited
    /\ waiter[w1].state = "true" /\ waiter[w2].state = "true"
    /\ \A w \in Waiters : ~waiter[w].timer

\* C10: the run stays registered for the whole turn: while the turn is
\* between two attempts (a profile rotation or a thinking fallback is about
\* to retry) isActive is true for its session id.
C10_ActiveAcrossRetries ==
  \A t \in Turns :
    turn[t].pc = "retry" => isEmbeddedPiRunActive(SessionIdOf(t))

(***************************************************************************)
(* Properties of the reconciler.                                           *)
(***************************************************************************)
\* Every text the subscription has made visible: the block replies of the
\* current message, the partial replies and the answer texts.
VisibleTexts ==
  Range(observed.blockReplies) \cup observed.partialReplies
    \cup Range(sub.assistantTexts)

\* The entries a step appended to a list.
NewEntries(old, new) ==
  IF Len(new) > Len(old) THEN {new[i] : i \in (Len(old) + 1)..Len(new)} ELSE {}

NoDuplicates(seq) ==
  \A i, j \in 1..Len(seq) : i # j => seq[i] # seq[j]

\* C3: reasoning never leaks: no block reply, partial reply or assistantTexts
\* entry holds a word that the provider sent between an open reasoning
\* marker and its close marker, however the text was cut into chunks.
C3_NoReasoningLeak ==
  \A text \in VisibleTexts : \A i \in 1..Len(text) : text[i] \notin ReasoningWords

\* C4: once a messaging-tool call has completed successfully with text T, no
\* later step delivers T through the block-reply callback or adds T to
\* assistantTexts.
C4_CommittedTextSuppressed ==
  [][\A T \in Range(sub.messagingToolSentTexts) :
       /\ T \notin NewEntries(observed.blockReplies, observed'.blockReplies)
       /\ T \notin NewEntries(sub.assistantTexts, sub'.assistantTexts)]_vars

\* C5: only the text of a messaging-tool call that completed successfully is
\* used for suppression: the list the duplicate check reads holds texts of
\* successful calls only, and every reply skipped as "already sent via
\* messaging tool" equals the text of a successful call, so a reply equal
\* only to the text of a pending or failed call is never skipped for it.
C5_OnlySuccessfulSuppress ==
  /\ Range(sub.messagingToolSentTexts) \subseteq observed.okTexts
  /\ observed.skipLog \subseteq observed.okTexts

\* The event handled last delivered a block reply whose text is that of a
\* call that had failed or of a call that is still pending.
C5_Witness ==
  /\ lastEvt.emitted
  /\ observed.blockReplies # <<>>
  /\ LET text == observed.blockReplies[Len(observed.blockReplies)]
     IN  \/ text \in observed.failedTexts \ observed.okTexts
         \/ text \in Range(sub.pendingMessagingTexts) \ observed.okTexts

\* C6: between a message_start and the next one no two block replies are
\* identical and no two assistantTexts entries added for the message are
\* identical.
C6_NoRepeatedText ==
  /\ NoDuplicates(observed.blockReplies)
  /\ NoDuplicates(SubSeq(sub.assistantTexts, observed.msgStartLen + 1,
                         Len(sub.assistantTexts)))

\* A text_end without a raw delta whose content the delta buffer already holds.
ReplayStep ==
  /\ lastEvt'.type = "text_end"
  /\ ~lastEvt'.hasDelta
  /\ lastEvt'.content # <<>>
  /\ Includes(sub.deltaBuffer, lastEvt'.content)

\* C7 as stated: a text_end without a raw delta that replays content already
\* delivered adds nothing to the delta buffer, emits no block reply and adds
\* no assistantTexts entry.
C7_ReplayEmitsNothing ==
  [][ReplayStep =>
       /\ sub'.deltaBuffer = sub.deltaBuffer
       /\ observed'.blockReplies = observed.blockReplies
       /\ sub'.assistantTexts = sub.assistantTexts]_vars

\* C7 amended: a text_end without a raw delta whose content the delta buffer
\* already holds adds nothing to the delta buffer; it emits a block reply or
\* adds an assistantTexts entry only to flush text still pending in the block
\* buffer, which it leaves empty when blocks break at text_end, so a further
\* replay emits nothing.
C7_ReplayIdempotent ==
  [][ReplayStep =>
       /\ sub'.deltaBuffer = sub.deltaBuffer
       /\ params.blockReplyBreak = "text_end" => sub'.blockBuffer = <<>>
       /\ sub.blockBuffer = <<>>
            => /\ observed'.blockReplies = observed.blockReplies
               /\ sub'.assistantTexts = sub.assistantTexts
               /\ sub'.blockBuffer = <<>>]_vars

\* A replayed text_end arrived when the block buffer had been flushed, after
\* a block reply of the message had been delivered.
C7_Witness ==
  /\ lastEvt.type = "text_end"
  /\ ~lastEvt.hasDelta
  /\ lastEvt.known
  /\ ~lastEvt.pending
  /\ stream.replays >= 1
  /\ stream.phase = "streaming"
  /\ observed.blockReplies # <<>>

(***************************************************************************)
(* Properties of the reply queue policy.                                   *)
(***************************************************************************)
\* The policy takes up a message in the given mode.
Samples(mode) == inbound'.n = inbound.n + 1 /\ inbound'.mode = mode

\* runReplyAgent finishes the handling of the message.
Handles == inbound.phase = "sampled" /\ inbound'.phase = "idle"

\* A turn of the session whose run has entered RUNNING and not ended.
ActiveRun(t, key) ==
  turn[t].key = key /\ turn[t].pc \in {"prompting", "retry"}

\* C11: in interrupt mode a new inbound message drops every turn still
\* queued on the session's lane and signals abort to the session's active
\* run, and its handling starts exactly one turn, which carries only the new
\* message.
C11_InterruptClearsAll ==
  [][/\ Samples("interrupt") =>
          \A t \in DOMAIN turn :
            /\ (turn[t].key = inbound'.key /\ turn[t].pc = "sessionQueued")
                 => turn'[t].pc = "cleared"
            /\ ActiveRun(t, inbound'.key) => turn'[t].aborted
     /\ (Handles /\ inbound.mode = "interrupt") =>
          /\ inbound'.started # NoTurn
          /\ submitOrder' = Append(submitOrder, inbound'.started)
          /\ turnMsg'[inbound'.started] = {inbound.n}]_vars

\* The run registered for the session of the message being handled streams.
RunStreams ==
  LET handle == ACTIVE_EMBEDDED_RUNS[SessionIdOfKey(inbound.key)]
  IN  handle # NoHandle /\ sess[handle[1]].streaming

\* The step passes a text to session.steer of the run registered for the
\* session of the message.
Forwards ==
  LET handle == ACTIVE_EMBEDDED_RUNS[SessionIdOfKey(inbound.key)]
  IN  /\ handle # NoHandle
      /\ Len(steered'[handle[1]]) = Len(steered[handle[1]]) + 1

\* C12 as stated: in steer or steer-backlog mode, when a run is registered
\* and streaming for the session, the handling of the message forwards the
\* text into that run and starts no turn.
C12_SteerAlwaysForwards ==
  [][(Handles /\ inbound.mode \in {"steer", "steer-backlog"} /\ RunStreams) =>
       /\ Forwards
       /\ submitOrder' = submitOrder]_vars

\* C12 amended: in steer or steer-backlog mode, when a run was registered and
\* streaming as the policy read the registry, queueMessage is called with
\* the text; if the run is still registered and streaming and is not
\* mid-compaction at the call, the text is forwarded into it, the call
\* returns true and the handling starts no turn; in steer mode it queues no
\* FollowupRun either.
C12_SteerForwards ==
  [][(Handles /\ inbound.mode \in {"steer", "steer-backlog"}
        /\ inbound.isActive /\ inbound.isStreaming) =>
       /\ inbound'.steerCalled
       /\ queueLog'.n = queueLog.n + 1
       /\ queueLog'.sid = SessionIdOfKey(inbound.key)
       /\ queueLog'.text \in SteerTexts
       /\ (RunStreams
             /\ ~isCompacting(sess[ACTIVE_EMBEDDED_RUNS[SessionIdOfKey(inbound.key)][1]]))
            => /\ Forwards
               /\ queueLog'.result
               /\ submitOrder' = submitOrder
               /\ inbound.mode = "steer" => followups' = followups]_vars

\* A message in steer-backlog mode was forwarded into the streaming run of
\* its session and its handling started no turn.
C12_Witness ==
  /\ inbound.phase = "idle"
  /\ inbound.mode = "steer-backlog"
  /\ inbound.steerCalled
  /\ queueLog.result
  /\ inbound.started = NoTurn
  /\ \E t \in DOMAIN turn :
       /\ turn[t].key = inbound.key
       /\ turn[t].pc = "prompting"
       /\ steered[t] # <<>>

\* The turns submitted by the step.
NewTurns == {submitOrder'[i] : i \in (Len(submitOrder) + 1)..Len(submitOrder')}

\* C13: in steer-backlog mode a message is never lost: when a run is active
\* its handling queues a FollowupRun for it besides the steer attempt,
\* whether or not the steer succeeds, and otherwise starts a turn with it;
\* a queued FollowupRun stays queued until a turn is started that carries
\* its message.
C13_BacklogKeepsMessage ==
  [][/\ (Handles /\ inbound.mode = "steer-backlog") =>
          IF inbound.isActive
          THEN /\ followups'[inbound.key] = Append(followups[inbound.key], inbound.n)
               /\ inbound'.steerCalled = inbound.isStreaming
          ELSE /\ inbound'.started \in NewTurns
               /\ inbound.n \in turnMsg'[inbound'.started]
     /\ \A k \in SessionKeys : \A i \in 1..Len(followups[k]) :
          \/ \E j \in 1..Len(followups'[k]) : followups'[k][j] = followups[k][i]
          \/ \E t \in NewTurns : /\ followups[k][i] \in turnMsg'[t]
                                 /\ turn'[t].key = k]_vars

\* A steer-backlog message whose steer attempt failed because the run had
\* ended is the prompt of a later turn.
C13_Witness ==
  /\ inbound.phase = "idle"
  /\ inbound.mode = "steer-backlog"
  /\ inbound.steerCalled
  /\ ~queueLog.result
  /\ inbound.enqueued
  /\ \E t \in DOMAIN turn :
       /\ inbound.n \in turnMsg[t]
       /\ turn[t].key = inbound.key
       /\ turn[t].pc = "prompting"
       /\ \A u \in DOMAIN turn :
            (u # t /\ turn[u].key = inbound.key) => turn[u].pc \in {"idle", "done"}

\* The step is the message_end of a message that was streamed by text_delta
\* events only, to a subscription without block replies.
DeltasOnlyMessageEnd ==
  /\ stream.phase = "streaming"
  /\ stream'.phase = "ended"
  /\ stream.block = 1
  /\ stream.offset > 0
  /\ ~params.onBlockReply

\* C14: a message streamed as message_start, text_deltas and message_end, with
\* no text_end and no block replies, adds exactly one entry to assistantTexts,
\* the full cleaned text of the message.
C14_OneEntryPerMessage ==
  [][DeltasOnlyMessageEnd =>
       sub'.assistantTexts =
         Append(sub.assistantTexts, FinalAnswerText(params, stream.message))]_vars

(***************************************************************************)
(* Properties of the rotation and of the result of a turn.                 *)
(***************************************************************************)
TurnEnded == rot.pc \in {"returned", "thrown"}

\* The last attempt was aborted through its handle, not by its deadline.
AbortedExternally == rot.result.aborted /\ ~rot.result.timedOut

\* Every candidate's credential resolved and every provider call of the
\* turn failed with an error of a failover class, none cut short by an
\* external abort.
AllCallsFailOver ==
  /\ TurnEnded
  /\ rot.attempted # <<>>
  /\ rot.allFailover
  /\ rot.unusable = {}
  /\ ~AbortedExternally

\* C15: when the provider calls of all N candidate profiles fail with a
\* failover-classified reason, the turn ends after exactly N attempts, one per
\* candidate, in the order of the candidates.
C15_AllCandidatesAttempted ==
  AllCallsFailOver => rot.attempted = rot.profileCandidates

\* The last provider call failed with an error of a failover class, it was
\* not cut short by an external abort, and no candidate is left to rotate to.
RotationExhausted ==
  /\ TurnEnded
  /\ rot.attempted # <<>>
  /\ rot.result.outcome.class \in FailoverReasons
  /\ ~AbortedExternally
  /\ rot.result.untried = {}

\* C16: when rotation has exhausted every candidate and a model fallback is
\* configured, the turn throws a FailoverError that carries reason, provider,
\* model, profileId and status; a FailoverError is never thrown while an
\* untried candidate remains.
C16_ExhaustedRaisesFailover ==
  /\ (RotationExhausted /\ rot.fallbackConfigured) =>
       /\ rot.result.kind = "thrown"
       /\ rot.result.error = "FailoverError"
       /\ rot.result.failover.reason # "none"
       /\ rot.result.failover.provider
       /\ rot.result.failover.model
       /\ rot.result.failover.profileId = rot.lastProfileId
       /\ rot.result.failover.status # 0
  /\ rot.result.error = "FailoverError" => rot.result.untried = {}

\* The step ends an attempt: the turn ends or goes on to its next attempt.
AttemptEndStep ==
  /\ rot.pc = "prompting"
  /\ \/ rot'.pc \in {"returned", "thrown"}
     \/ Len(rot'.attempted) = Len(rot.attempted) + 1

\* The attempt that the step ends calls for rotation, a failover-class error
\* not cut short by an external abort, or a deadline, and no later candidate
\* has a credential that resolves.
ExhaustedStep ==
  /\ AttemptEndStep
  /\ \/ rot'.lastOutcome.class \in FailoverReasons /\ ~(rot.aborted /\ ~rot.timedOut)
     \/ rot.timedOut
  /\ \A i \in (rot.profileIndex + 1)..Len(rot.profileCandidates) :
       rot.profileCandidates[i] \in rot.unusable

\* The original statement of C17: with rotation exhausted and no model
\* fallback configured the turn ends at once, and the caller receives the
\* error or a result with exactly one payload flagged isError.
C17_ExhaustedErrorOrPayload ==
  [][(ExhaustedStep /\ ~rot.fallbackConfigured) =>
       \/ rot'.pc = "thrown"
       \/ rot'.pc = "returned" /\ rot'.result.isError = 1]_vars

\* C17: with rotation exhausted and no model fallback configured the turn
\* ends at once and the failure is surfaced: the prompt error is thrown, or
\* the result has exactly one isError payload for the error of the last
\* assistant message, or, when the last attempt ran into its deadline and the
\* last assistant message has no error, the result reports the abort in its
\* metadata and has no isError payload.
C17_ExhaustedSurfaces ==
  [][(ExhaustedStep /\ ~rot.fallbackConfigured) =>
       \/ /\ rot'.pc = "thrown"
          /\ rot'.result.error = "promptError"
          /\ rot'.lastOutcome.err = "prompt"
       \/ /\ rot'.pc = "returned"
          /\ rot'.result.isError = 1
          /\ rot'.lastOutcome.err = "assistant"
       \/ /\ rot'.pc = "returned"
          /\ rot'.result.isError = 0
          /\ rot'.result.metaAborted = TRUE
          /\ rot.timedOut
          /\ rot'.lastOutcome.err # "assistant"]_vars

\* The turn tried every one of its candidates, each failed with an auth error
\* of the assistant, and the result carries the last error as its one
\* isError payload.
C17_Witness ==
  /\ rot.pc = "returned"
  /\ ~rot.fallbackConfigured
  /\ rot.attempted = rot.profileCandidates
  /\ Len(rot.attempted) = NumProfiles
  /\ rot.allFailover
  /\ rot.result.outcome = [err |-> "assistant", class |-> "auth"]
  /\ ~rot.result.aborted
  /\ rot.result.isError = 1

\* The step ends an attempt whose session.prompt rejected with an error that
\* matches context overflow.
OverflowStep ==
  /\ AttemptEndStep
  /\ rot'.lastOutcome = [err |-> "prompt", class |-> "overflow"]

AbortedStep == AttemptEndStep /\ rot.aborted

\* The result of an aborted attempt: no throw, the abort in the metadata, and
\* no isError payload but the one for an error of the last assistant message.
AbortResult ==
  /\ rot'.pc = "returned"
  /\ rot'.result.metaAborted = TRUE
  /\ rot'.result.error = "none"
  /\ rot'.result.isError = IF rot'.lastOutcome.err = "assistant" THEN 1 ELSE 0

\* The original statement of C19: a turn aborted externally or by its
\* deadline does not throw, adds no error-flagged reply for the abort, and
\* returns a result that reports the abort in its metadata.
C19_AbortNeverVisible == [][AbortedStep => AbortResult]_vars

\* C19: a turn aborted externally does not throw, adds no error-flagged reply
\* for the abort, and returns a result that reports the abort in its
\* metadata. A turn aborted by its deadline rotates to the next candidate
\* whose credential resolves; with none left it throws FailoverError when a
\* model fallback is configured and otherwise returns as after an external
\* abort. The error session.prompt rejected with is never thrown.
C19_AbortNotVisible ==
  [][AbortedStep =>
       /\ ~(rot'.pc = "thrown" /\ rot'.result.error = "promptError")
       /\ ~rot.timedOut => AbortResult
       /\ rot.timedOut =>
            IF \E i \in (rot.profileIndex + 1)..Len(rot.profileCandidates) :
                 rot.profileCandidates[i] \notin rot.unusable
            THEN /\ rot'.pc = "prompting"
                 /\ Len(rot'.attempted) = Len(rot.attempted) + 1
            ELSE IF rot.fallbackConfigured
            THEN rot'.pc = "thrown" /\ rot'.result.error = "FailoverError"
            ELSE AbortResult]_vars

\* A turn that was aborted externally while session.prompt was in flight
\* returned a result without error payload that reports the abort.
C19_Witness ==
  /\ rot.pc = "returned"
  /\ rot.result.aborted
  /\ ~rot.result.timedOut
  /\ rot.result.outcome.err = "prompt"
  /\ rot.result.isError = 0
  /\ rot.result.metaAborted = TRUE

\* C20: a profile in cooldown is skipped by the rotator unless it is the
\* pinned profile: every attempt of the turn uses a profile that is not in
\* cooldown when it is selected, or the pinned one; and no attempt uses a
\* profile that the turn itself has put in cooldown before.
C20_CooldownSkipped ==
  /\ \A i \in rot.cooling :
       rot.explicitProfileId # NoProfile /\ rot.attempted[i] = rot.explicitProfileId
  /\ rot.again = {}

\* A step in which the promise of turn t is rejected.
RejectionStep(t) == turn[t].promise = "pending" /\ turn'[t].promise = "rejected"

\* C21: a task that throws does not block its lane. On the step that rejects
\* the promise of a turn, the turn gives up every lane it held, every lane
\* with queued tasks has a task running (the task queued behind the failed one
\* is started on the session lane and on the global lane), the turns queued
\* behind it are still queued or started, and the promise of no other turn
\* changes.
C21_RejectionFreesLane ==
  [][\A t \in Turns :
       RejectionStep(t) =>
         /\ \A l \in Lanes : laneActive'[l] # t
         /\ \A l \in Lanes : laneQueue'[l] # <<>> => laneActive'[l] # NoTurn
         /\ \A l \in Lanes :
              (laneActive[l] = t /\ laneQueue[l] # <<>>) =>
                 laneActive'[l] = Head(laneQueue[l])
         /\ \A u \in Turns \ {t} : turn'[u].promise = turn[u].promise
         /\ finishOrder' = Append(finishOrder, t)]_vars

\* The body of a turn runs on the lanes a turn of the same session key held
\* until its promise was rejected.
C21_Witness ==
  \E t, u \in Turns :
     /\ t < u
     /\ turn[t].promise = "rejected"
     /\ turn[u].key = turn[t].key
     /\ turn[u].pc = "setup"
     /\ turn[u].bodyRuns = 1
     /\ laneActive[resolveSessionLane(turn[u].key)] = u
     /\ finishOrder = <<t>>

\* The turn returns a result whose last attempt reported no error.
SuccessStep ==
  /\ rot.pc = "prompting"
  /\ rot'.pc = "returned"
  /\ rot'.result.outcome.err = "none"

\* C22: on overall success of a turn, the profile of the attempt that
\* succeeded is out of cooldown in the store and its usage is recorded when
\* the turn returns.
C22_SuccessMarksGoodAndUsed ==
  [][(SuccessStep /\ rot'.lastProfileId # NoProfile) =>
       /\ rot'.lastProfileId = rot.lastProfileId
       /\ ~authStore'[rot'.lastProfileId]
       /\ rot'.result.used = rot'.lastProfileId]_vars

\* A turn succeeded with a profile that another turn had put in cooldown
\* while the attempt ran; the profile is out of cooldown and marked used.
C22_Witness ==
  /\ rot.pc = "returned"
  /\ rot.result.outcome.err = "none"
  /\ Len(rot.attempted) = 2
  /\ rot.lastProfileId \in Profiles
  /\ rot.cooling # {}
  /\ rot.result.used = rot.lastProfileId
  /\ ~authStore[rot.lastProfileId]

\* A step that is a call of syncExternalCliCredentials.
SyncStep == sync'.n = sync.n + 1

\* C23: the sync prefers oauth over token for the Claude CLI profile. A call
\* that finds a token credential stored and reads an oauth credential from
\* the CLI stores the CLI's credential, whatever the two expiry times are;
\* and no step replaces a stored oauth credential by a credential of
\* another type.
C23_OAuthPreferred ==
  [][/\ (/\ SyncStep
         /\ profiles[CLAUDE_CLI_PROFILE_ID].type = "token"
         /\ sync'.claude.type = "oauth") =>
           profiles'[CLAUDE_CLI_PROFILE_ID] = sync'.claude
     /\ profiles[CLAUDE_CLI_PROFILE_ID].type = "oauth" =>
           profiles'[CLAUDE_CLI_PROFILE_ID].type = "oauth"]_vars

\* The last sync found a token that is valid and expires later than the
\* oauth credential of the CLI, and the store holds the oauth credential.
C23_Witness ==
  /\ sync.n > 0
  /\ sync.existing.type = "token"
  /\ sync.claude.type = "oauth"
  /\ sync.existing.expires > now
  /\ sync.existing.expires > sync.claude.expires
  /\ profiles[CLAUDE_CLI_PROFILE_ID] = sync.claude
  /\ sync.mutated

\* C24: syncExternalCliCredentials writes only the Claude CLI and the Codex
\* CLI profile: no step changes any other profile of the store, and a call
\* that reports a mutation changed one of the two.
C24_OnlyCliProfilesWritten ==
  [][/\ \A id \in ProfileIds \ {CLAUDE_CLI_PROFILE_ID, CODEX_CLI_PROFILE_ID} :
          profiles'[id] = profiles[id]
     /\ (SyncStep /\ sync'.mutated) =>
          \E id \in {CLAUDE_CLI_PROFILE_ID, CODEX_CLI_PROFILE_ID} :
             profiles'[id] # profiles[id]]_vars

\* A sync stored the credential of the Claude CLI, of the provider of the
\* API key profile, and the API key profile is as it was loaded.
C24_Witness ==
  /\ sync.n > 0
  /\ sync.mutated
  /\ profiles[CLAUDE_CLI_PROFILE_ID] = sync.claude
  /\ sync.claude.provider = ApiKeyCred.provider
  /\ profiles[CODEX_CLI_PROFILE_ID].secret = "cli"
  /\ profiles[ApiKeyProfileId] = ApiKeyCred

HasBlock(msg, Matches(_)) == \E i \in 1..Len(msg.content) : Matches(msg.content[i])

IsThinkingBlock(b) == b.type = "thinking"

IsToolCallBlock(b) == b.type \in {"toolCall", "toolUse", "functionCall"}

IsNonEmptyText(b) == b.type = "text" /\ b.text # <<>>

IsNonBlankText(b) == b.type = "text" /\ \E i \in 1..Len(b.text) : b.text[i] \notin {" ", "\n"}

\* An assistant message with a thinking block, no tool call and no text
\* block whose text is non-empty.
ReasoningOnlyByLength(msg) ==
  /\ msg.role = "assistant"
  /\ HasBlock(msg, IsThinkingBlock)
  /\ ~HasBlock(msg, IsToolCallBlock)
  /\ ~HasBlock(msg, IsNonEmptyText)

KeptByLength(msg) == ~ReasoningOnlyByLength(msg)

\* An assistant message with a thinking block, no tool call and no text
\* block whose text has a character that is not whitespace.
ReasoningOnly(msg) ==
  /\ msg.role = "assistant"
  /\ HasBlock(msg, IsThinkingBlock)
  /\ ~HasBlock(msg, IsToolCallBlock)
  /\ ~HasBlock(msg, IsNonBlankText)

KeptAsPaired(msg) == ~ReasoningOnly(msg)

\* C25 as stated: for openai-responses the stage drops exactly the assistant
\* messages with a thinking block, no tool call and no non-empty text block,
\* keeping the others in order; for every other model API it removes nothing.
C25_DropsWithoutNonEmptyText ==
  hist.pc = "filtered" =>
    hist.filtered = IF hist.modelApi = "openai-responses"
                    THEN SelectSeq(hist.messages, KeptByLength)
                    ELSE hist.messages

\* C25, amended: for openai-responses the stage drops exactly the assistant
\* messages with a thinking block, no tool call and no text block that has a
\* character other than whitespace, keeping the others in order; for every
\* other model API it removes nothing.
C25_DropsReasoningOnly ==
  hist.pc = "filtered" =>
    hist.filtered = IF hist.modelApi = "openai-responses"
                    THEN SelectSeq(hist.messages, KeptAsPaired)
                    ELSE hist.messages

\* A message whose thinking block comes with a whitespace-only text block was
\* dropped and the message after it, thinking with a tool call, was kept.
C25_Witness ==
  /\ hist.pc = "filtered"
  /\ hist.modelApi = "openai-responses"
  /\ Len(hist.messages) = 2
  /\ hist.messages[1].content = <<[type |-> "thinking", text |-> <<>>],
                                  [type |-> "text", text |-> <<" ">>]>>
  /\ HasBlock(hist.messages[2], IsThinkingBlock)
  /\ HasBlock(hist.messages[2], IsToolCallBlock)
  /\ hist.filtered = <<hist.messages[2]>>

\* C26: updateCommand calls runDaemonRestart only when the update result has
\* status ok and --restart was given, and then once; after a result with
\* status error it has exited with code 1 and after a skipped one with code
\* 0, both times without a call of runDaemonRestart.
C26_RestartOnlyAfterOk ==
  /\ upd.restarts > 0 => (upd.status = "ok" /\ upd.restart)
  /\ (upd.status = "ok" /\ upd.restart) => upd.restarts = 1
  /\ upd.status = "error" =>
       (upd.exits = <<1>> /\ upd.restarts = 0 /\ upd.pc \in {"returned", "exited"})
  /\ upd.status = "skipped" =>
       (upd.exits = <<0>> /\ upd.restarts = 0 /\ upd.pc \in {"returned", "exited"})

\* updateCommand returned after an update with status ok and a restart of
\* the daemon that --restart asked for.
C26_Witness ==
  /\ upd.pc = "returned"
  /\ upd.status = "ok"
  /\ upd.restart
  /\ upd.restarts = 1
  /\ upd.exits = <<>>
  /\ "Daemon restarted" \in upd.log

\* A step that handles a text event of the assistant message.
TextEventStep == lastEvt'.type \in {"text_delta", "text_end"}

\* The raw delta of the text event of the step: the tokens a text_delta
\* takes from the block, the rest of the block for a text_end.
SentDelta ==
  IF lastEvt'.type = "text_delta"
  THEN SubSeq(Remaining, 1, stream'.offset - stream.offset)
  ELSE Remaining

\* C27: chunk resolution. The chunk of a text event is what the event adds
\* to the delta buffer: the raw delta when the event carries one; otherwise
\* the suffix by which the event's content extends the buffer, and nothing
\* when the buffer contains the content already.
C27_ChunkResolution ==
  [][TextEventStep =>
       /\ lastEvt'.hasDelta => sub'.deltaBuffer = sub.deltaBuffer \o SentDelta
       /\ (~lastEvt'.hasDelta /\ StartsWith(lastEvt'.content, sub.deltaBuffer)) =>
            sub'.deltaBuffer = lastEvt'.content
       /\ (~lastEvt'.hasDelta /\ Includes(sub.deltaBuffer, lastEvt'.content)) =>
            sub'.deltaBuffer = sub.deltaBuffer]_vars

\* A text_end without a delta whose content extended a non-empty buffer that
\* did not contain it: the buffer is the content.
C27_Witness ==
  /\ lastEvt.type = "text_end"
  /\ ~lastEvt.hasDelta
  /\ lastEvt.pending
  /\ ~lastEvt.known
  /\ Len(lastEvt.content) > 1
  /\ sub.deltaBuffer = lastEvt.content

\* A text event without a delta whose content and the buffer are no prefix
\* of one another.
ResetStep ==
  /\ TextEventStep
  /\ ~lastEvt'.hasDelta
  /\ ~StartsWith(lastEvt'.content, sub.deltaBuffer)
  /\ ~StartsWith(sub.deltaBuffer, lastEvt'.content)

\* C28 as stated: when no delta is present and neither the content nor the
\* buffer is a prefix of the other, all of the content is appended to the
\* buffer.
C28_ResetAppendsContent ==
  [][ResetStep => sub'.deltaBuffer = sub.deltaBuffer \o lastEvt'.content]_vars

\* C28, amended: when no delta is present, neither the content nor the
\* buffer is a prefix of the other and the buffer does not contain the
\* content, all of the content is appended to the buffer; when the buffer
\* contains the content the buffer is left as it is.
C28_ResetUnlessContained ==
  [][ResetStep =>
       sub'.deltaBuffer = IF Includes(sub.deltaBuffer, lastEvt'.content)
                          THEN sub.deltaBuffer
                          ELSE sub.deltaBuffer \o lastEvt'.content]_vars

\* The text_end of the second block came without a delta and with a content
\* the buffer did not contain: the content follows the first block in the
\* buffer.
C28_Witness ==
  /\ lastEvt.type = "text_end"
  /\ ~lastEvt.hasDelta
  /\ ~lastEvt.known
  /\ lastEvt.content = <<"more">>
  /\ sub.deltaBuffer = <<"visible", "more">>

\* A text_end that arrives after the message_end of a message of one text
\* block and carries, without a raw delta, the content of the message.
LateTextEndStep ==
  /\ stream.phase = "ended"
  /\ lastEvt'.type = "text_end"
  /\ ~lastEvt'.hasDelta
  /\ stream.message = <<lastEvt'.content>>

\* C29: a late text_end that arrives after message_end for the same message
\* and repeats the message's content delivers no block reply and adds no
\* entry to assistantTexts.
C29_LateTextEndAddsNothing ==
  [][LateTextEndStep =>
       /\ observed'.blockReplies = observed.blockReplies
       /\ sub'.assistantTexts = sub.assistantTexts]_vars

\* The tokens of the texts the subscription holds and has produced.
RECURSIVE TokensOfTexts(_)
TokensOfTexts(texts) ==
  IF texts = <<>> THEN {} ELSE Range(Head(texts)) \cup TokensOfTexts(Tail(texts))

ProducedTokens ==
  TokensOfTexts(sub.assistantTexts) \cup TokensOfTexts(observed.blockReplies)
    \cup UNION {Range(text) : text \in observed.partialReplies}
    \cup Range(sub.deltaBuffer) \cup Range(sub.blockBuffer)
    \cup (IF sub.lastBlockReplyText = Undefined THEN {}
          ELSE Range(sub.lastBlockReplyText))

\* The tokens received since the compaction retry while at most one message
\* has started since: those of the blocks of that message and the line break
\* that joins its blocks.
ReceivedSinceRetry ==
  IF stream.messages = stream.retryAt THEN {}
  ELSE TokensOfTexts(stream.message) \cup {"\n"}

CompactionRetryStep ==
  /\ lastEvt'.type = "auto_compaction_end"
  /\ stream'.retried
  /\ stream'.retryAt = stream.messages
  /\ sub'.pendingCompactionRetry = sub.pendingCompactionRetry + 1

\* C30: on a compaction end signal with willRetry the delta buffer, the block
\* buffer and the inside-reasoning flag are reset, and no text received
\* before the signal appears in a chunk, block reply, partial reply or
\* assistantTexts entry produced for the retry.
C30_CompactionRetryResets ==
  /\ [][CompactionRetryStep =>
          /\ sub'.deltaBuffer = <<>>
          /\ sub'.blockBuffer = <<>>
          /\ sub'.blockThinkingActive = FALSE
          /\ sub'.assistantTexts = <<>>]_vars
  /\ [](stream.retried /\ stream.messages <= stream.retryAt + 1
          => ProducedTokens \subseteq ReceivedSinceRetry)

\* After a compaction retry that followed a first message, the second
\* message has produced an answer text and a block reply.
C30_Witness ==
  /\ stream.retried
  /\ stream.retryAt = 1
  /\ stream.messages = 2
  /\ sub.assistantTexts # <<>>
  /\ observed.blockReplies # <<>>
  /\ TokensOfTexts(sub.assistantTexts) # {"visible"}

\* The subscription compacts: a compaction is in flight or a retry is pending.
Compacting == sub.compactionInFlight \/ sub.pendingCompactionRetry > 0

\* C31: the compaction gate. A gate never resolves while a compaction is in
\* flight or a retry is pending; once neither is the case no gate is left
\* waiting on the compaction promise, and a gate whose microtask is queued
\* resolves unless the subscription compacts again first.
C31_GateResolvesWhenClear ==
  /\ [][\A g \in 1..MaxGates :
          (sub.gates[g] # "resolved" /\ sub'.gates[g] = "resolved")
             => (~sub'.compactionInFlight /\ sub'.pendingCompactionRetry = 0)]_vars
  /\ [](~Compacting =>
          /\ ~sub.compactionRetryPromise
          /\ \A g \in 1..MaxGates : sub.gates[g] \notin {"shared", "chained"})
  /\ [](Compacting => sub.compactionRetryPromise)
  /\ \A g \in 1..MaxGates :
        (sub.gates[g] \notin {"unused", "resolved"} /\ ~Compacting)
           ~> (sub.gates[g] = "resolved" \/ Compacting)

\* Both gates have resolved and, after a compaction retry, an agent_end has
\* left the subscription with no compaction in flight and no retry pending.
C31_Witness ==
  /\ sub.gates[1] = "resolved"
  /\ sub.gates[2] = "resolved"
  /\ stream.retried
  /\ lastEvt.type = "agent_end"
  /\ ~Compacting

\* C38: the pending-compaction-retry counter never becomes negative. An
\* agent_end that arrives while no retry is pending leaves the counter at
\* zero, and a retry signalled afterwards is pending until an agent_end of
\* its own: each retry signal adds one to the counter.
C38_CounterNeverNegative ==
  /\ [](sub.pendingCompactionRetry >= 0)
  /\ [][(lastEvt'.type = "agent_end" /\ sub.pendingCompactionRetry = 0)
          => sub'.pendingCompactionRetry = 0]_vars
  /\ [][(lastEvt'.type = "auto_compaction_end"
            /\ sub'.pendingCompactionRetry # sub.pendingCompactionRetry)
          => /\ sub'.pendingCompactionRetry = sub.pendingCompactionRetry + 1
             /\ sub'.pendingCompactionRetry > 0]_vars

\* An agent_end has arrived although no retry had been signalled; the
\* counter is zero.
C38_Witness ==
  /\ lastEvt.type = "agent_end"
  /\ ~stream.retried
  /\ sub.pendingCompactionRetry = 0
  /\ sub.gates[1] = "resolved"

\* A step in which the turn takes another candidate profile, at the start of
\* the turn or by rotation.
CandidateStep ==
  /\ rot'.pc = "prompting"
  /\ rot'.profileIndex # rot.profileIndex

\* C32: credential resolution. A turn whose pinned profile has no credential
\* throws the credential error without an attempt. Otherwise the turn takes
\* the next candidate in order whose credential resolves, passing over only
\* candidates whose credential does not resolve, and begins the attempt at
\* the initial thinking level with no other level attempted.
C32_CredentialFailure ==
  /\ []((rot.pc # "idle" /\ rot.explicitProfileId # NoProfile
            /\ rot.explicitProfileId \in rot.unusable)
          => /\ rot.pc = "thrown"
             /\ rot.result.error = "credential"
             /\ rot.attempted = <<>>)
  /\ [][CandidateStep =>
          /\ rot'.profileIndex > rot.profileIndex
          /\ rot'.profileCandidates[rot'.profileIndex] \notin rot'.unusable
          /\ \A j \in (rot.profileIndex + 1)..(rot'.profileIndex - 1) :
                rot'.profileCandidates[j] \in rot'.unusable
          /\ rot'.thinkLevel = "off"
          /\ rot'.attemptedThinking = {"off"}]_vars

\* The turn runs with its second candidate after the credential of the first
\* did not resolve.
C32_Witness ==
  /\ rot.pc = "prompting"
  /\ rot.explicitProfileId = NoProfile
  /\ Len(rot.profileCandidates) = 2
  /\ rot.profileCandidates[1] \in rot.unusable
  /\ rot.profileIndex = 2
  /\ rot.attempted = <<rot.profileCandidates[2]>>

\* The provider call that the step ends failed with an error of a failover
\* class, before the deadline and without abort, with a profile of the store.
ProviderFailureStep ==
  /\ AttemptEndStep
  /\ rot'.lastOutcome.class \in FailoverReasons
  /\ ~rot.aborted
  /\ rot.lastProfileId \in Profiles

\* C33: on a provider-call failure of a failover class the turn puts the
\* profile that made the call in cooldown; the profile is in cooldown when
\* another candidate is attempted, and the next attempt uses the next
\* candidate in order.
C33_FailureCoolsThenRotates ==
  [][ProviderFailureStep =>
       /\ rot.lastProfileId \in rot'.marked
       /\ rot'.pc = "prompting" =>
            /\ authStore'[rot.lastProfileId]
            /\ rot'.profileIndex = advanceAuthProfile(rot, rot.profileIndex).index]_vars

\* The attempt that the step ends exceeded the deadline, or its provider
\* call failed with an error classified as timeout and was not aborted.
TimeoutStep ==
  /\ AttemptEndStep
  /\ rot.lastProfileId \in Profiles
  /\ \/ rot.timedOut
     \/ rot'.lastOutcome.class = "timeout" /\ ~rot.aborted

\* C34: a timeout, of the deadline or of the provider call, puts the current
\* profile in cooldown, and the turn retries with the next candidate when
\* there is one.
C34_TimeoutRotates ==
  [][TimeoutStep =>
       /\ rot.lastProfileId \in rot'.marked
       /\ advanceAuthProfile(rot, rot.profileIndex).kind = "ok" =>
            /\ rot'.pc = "prompting"
            /\ rot'.profileIndex = advanceAuthProfile(rot, rot.profileIndex).index]_vars

\* The step ends one attempt of the turn and begins the next.
RetryStep ==
  /\ rot.pc = "prompting"
  /\ rot'.pc = "prompting"
  /\ Len(rot'.attempted) = Len(rot.attempted) + 1

\* C35: every retry goes to a strictly later candidate or, with the same
\* candidate, to a thinking level not yet attempted for it; a turn makes at
\* most (candidates x thinking levels) attempts; and every turn that is in
\* an attempt ends.
C35_RetryLoopTerminates ==
  /\ [][RetryStep =>
          \/ rot'.profileIndex > rot.profileIndex
          \/ /\ rot'.profileIndex = rot.profileIndex
             /\ rot'.thinkLevel \notin rot.attemptedThinking]_vars
  /\ [](Len(rot.attempted) <= Len(rot.profileCandidates) * Cardinality(ThinkLevels))
  /\ (rot.pc = "prompting" ~> TurnEnded)

\* A turn with two candidates in its fourth attempt: every thinking level
\* of both candidates has been attempted.
C35_Witness ==
  /\ rot.pc = "prompting"
  /\ Len(rot.profileCandidates) = 2
  /\ Len(rot.attempted) = 2 * Cardinality(ThinkLevels)
  /\ rot.attemptedThinking = ThinkLevels

\* C36: a turn that has ended after marking a profile failed has neither
\* cleared that profile's cooldown nor recorded the profile as used.
C36_FailedProfileStaysCooling ==
  \A p \in Profiles :
    (TurnEnded /\ p \in rot.marked) => (authStore[p] /\ rot.result.used # p)

\* The step ends an attempt of turn t.
EndsAttempt(t) == turn[t].pc = "prompting" /\ turn'[t].pc # "prompting"

\* C37: an attempt that ends removes only its own registration: an entry of
\* the registry is deleted only by the end of the attempt whose handle it
\* holds, and the end of an attempt whose handle is not the entry of its
\* session id leaves that entry and the waiters as they are.
C37_OnlyOwnRegistration ==
  [][/\ \A s \in SessionIds :
          Deregisters(s) =>
            LET handle == ACTIVE_EMBEDDED_RUNS[s]
            IN  /\ EndsAttempt(handle[1])
                /\ HandleOf(handle[1]) = handle
                /\ SessionIdOf(handle[1]) = s
     /\ \A t \in Turns :
          (EndsAttempt(t) /\ ACTIVE_EMBEDDED_RUNS[SessionIdOf(t)] # HandleOf(t))
            => /\ ACTIVE_EMBEDDED_RUNS' = ACTIVE_EMBEDDED_RUNS
               /\ EMBEDDED_RUN_WAITERS' = EMBEDDED_RUN_WAITERS
               /\ waiter' = waiter]_vars

\* An attempt has ended while the entry of its session id was the handle of
\* another turn's attempt, which is still running and registered, and a
\* waiter of the session id is still pending.
C37_Witness ==
  \E t1, t2 \in Turns, w \in Waiters :
    /\ t1 # t2
    /\ turn[t1].notOwn
    /\ SessionIdOf(t1) = SessionIdOf(t2)
    /\ turn[t2].pc = "prompting"
    /\ ACTIVE_EMBEDDED_RUNS[SessionIdOf(t2)] = HandleOf(t2)
    /\ waiter[w].state = "pending"
    /\ waiter[w].sid = SessionIdOf(t2)

\* C39: every turn that was submitted eventually has its body running on
\* the global lane, whatever keys and lane names the callers pass and however
\* the submissions interleave, provided every body terminates.
C39_EveryTurnRuns ==
  \A t \in Turns : Submitted(t) ~> (turn[t].bodyRuns > 0)

\* The inbound message handled last was steered into the active run in
\* steer-backlog mode: queueEmbeddedPiMessage was called for it and returned true.
SteeredInBacklogMode ==
  /\ inbound.phase = "idle"
  /\ inbound.mode = "steer-backlog"
  /\ inbound.steerCalled
  /\ queueLog.result

\* C40: a message steered into the active run in steer-backlog mode is not
\* also the message of a separate turn.
C40_SteeredOnce ==
  SteeredInBacklogMode => \A t \in PolicyTurns : inbound.n \notin turnMsg[t]
====
